---- MODULE Spec2Model ----
(***************************************************************************)
(* State-machine model of the rtc-engine SFU core.                         *)
(*                                                                         *)
(*   RtpForwarder         src/server/src/rtp_forwarder.cpp                 *)
(*   SubscriptionManager  src/unnamed/part_002 (subscription_manager.cpp)  *)
(*                                                                         *)
(*   FrameBuffer          src/unnamed/part_013 (frame_buffer.cpp)          *)
(*   AudioMixer           src/server/src/audio_mixer.cpp                   *)
(*   RtpPacer             src/unnamed/part_009                             *)
(*   BitrateController    src/video/src/video_placeholder.cpp              *)
(*   IceAgent             src/core/src/ice_agent.cpp                       *)
(*   RtpPacket            src/core/src/rtp_packet.cpp                      *)
(*   ClusterCoordinator   src/server/src/cluster_coordinator.cpp           *)
(*   SpscQueue, MpscQueue src/core/include/rtc/metrics_exporter.h          *)
(*   ConnectionRecovery   src/core/src/connection_recovery.cpp             *)
(*   JitterBuffer         src/unnamed/part_014 (jitter_buffer.cpp)         *)
(*                                                                         *)
(* Each component is a group of variables with one action per public       *)
(* method.  The specifications are SpecFwd (the forwarder with its I/O     *)
(* threads), SpecSub (the subscription manager), SpecSfu (both components  *)
(* side by side, as SfuServer::Impl owns them), SpecFb and SpecFbStream    *)
(* (the frame buffer), SpecMix (the audio mixer), SpecPacer and            *)
(* SpecPacerLive (the pacer, the second with process() called again and    *)
(* again), SpecBc (the bitrate controller), SpecIce and SpecIcePriority    *)
(* (the ICE agent and its candidate priorities), SpecRtp (RTP parsing and  *)
(* serialization), SpecCluster (the cluster coordinator and the thread     *)
(* that calls it), SpecSpsc and SpecMpsc (the lock-free queues with their  *)
(* threads), SpecRecovery (connection recovery with its recovery thread)   *)
(* and SpecJb (the jitter buffer).                                         *)
(***************************************************************************)
EXTENDS Integers, Sequences, FiniteSets, TLC

VARIABLES
  forward_callback,   \* RtpForwarder::Impl::forward_callback is non-empty
  ssrc_to_stream,     \* RtpForwarder::Impl::ssrc_to_stream
  publisher_ssrcs,    \* RtpForwarder::Impl::publisher_ssrcs
  stats,              \* RtpForwarder::Impl::stats
  mutex,              \* threads holding RtpForwarder::Impl::mutex
  thr,                \* per I/O thread: position inside on_rtp_packet
  sinkLog,            \* calls made to the forward callback, in order
  calls,              \* control-plane calls made so far
  lastOp,             \* the operation that produced the current state
  subscriptions,      \* SubscriptionManager::Impl::subscriptions
  stream_layers,      \* SubscriptionManager::Impl::stream_layers
  bandwidth_info,     \* SubscriptionManager::Impl::bandwidth_info
  layer_switch_callback, \* SubscriptionManager::Impl::layer_switch_callback set
  switched,           \* layer_switch_callback calls made by the last operation
  cycles,             \* 1 once process() has run, 0 before
  fb_config,          \* FrameBuffer::Impl::config
  assemblers,         \* FrameBuffer::Impl::assemblers
  complete_frames,    \* FrameBuffer::Impl::complete_frames
  received_sequences, \* FrameBuffer::Impl::received_sequences
  highest_sequence,   \* FrameBuffer::Impl::highest_sequence
  has_keyframe,       \* FrameBuffer::Impl::has_keyframe
  fb_stats,           \* FrameBuffer::Impl::stats
  fbRet,              \* what the last FrameBuffer call returned
  fbHist,             \* history of the FrameBuffer calls since the last reset()
  fbCalls,            \* insert_packet calls made so far
  mix_config,         \* AudioMixer::Impl::config
  sources,            \* AudioMixer::Impl::sources
  mixed_callback,     \* AudioMixer::Impl::mixed_callback is non-empty
  speaker_callback,   \* AudioMixer::Impl::speaker_callback is non-empty
  active_speaker,     \* AudioMixer::Impl::active_speaker ("" when empty)
  mix_stats,          \* AudioMixer::Impl::stats
  mixOut,             \* mixed_callback calls made by the last process()
  speakerOut,         \* speaker_callback calls made by the last process()
  mixCalls,           \* AudioMixer control and push calls made so far
  pacer_config,       \* RtpPacer::Impl::config
  send_callback,      \* RtpPacer::Impl::send_callback is non-empty
  available_tokens,   \* RtpPacer::Impl::available_tokens
  last_process_time,  \* RtpPacer::Impl::last_process_time
  steady_clock,       \* std::chrono::steady_clock::now()
  queue,              \* RtpPacer::Impl::queue, as its heap vector
  pacer_stats,        \* RtpPacer::Impl::stats
  pacedLog,           \* calls made to the send callback, in order
  rate_set_at,        \* time of the last set_target_bitrate, -1 if none
  pacerCalls,         \* enqueue, set_target_bitrate and clear calls so far
  bc_config,          \* BitrateController::Impl::config
  callback,           \* BitrateController::Impl::callback is non-empty
  current_bitrate,    \* BitrateController::Impl::current_bitrate
  target_bitrate,     \* BitrateController::Impl::target_bitrate
  current_loss,       \* BitrateController::Impl::current_loss, per mille
  overusing,          \* BitrateController::Impl::overusing
  since_update,       \* ms since BitrateController::Impl::last_update
  notified,           \* callback calls made by the last operation
  bcCalls,            \* BitrateController calls made so far
  ice_config,         \* IceAgent::Impl::config
  callbacks,          \* IceAgent::Impl::callbacks: which ones are non-empty
  socket,             \* IceAgent::Impl::socket: "none", "open" or "closed"
  local_candidates,   \* IceAgent::Impl::local_candidates
  remote_candidates,  \* IceAgent::Impl::remote_candidates
  candidate_pairs,    \* IceAgent::Impl::candidate_pairs
  connection_state,   \* IceAgent::Impl::connection_state
  gathering_state,    \* IceAgent::Impl::gathering_state
  ice_stats,          \* IceAgent::Impl::stats
  iceOut,             \* callback calls made by the last IceAgent operation
  iceCalls,           \* IceAgent calls made so far
  priorityLog,        \* IceCandidate::calculate_priority calls and results
  rtp_packet,         \* the RtpPacket a caller serialized, <<>> if none
  rtp_wire,           \* the bytes last serialized or received
  rtp_parsed,         \* what RtpPacket::parse returned for rtp_wire
  cluster_config,     \* ClusterCoordinator::Impl::config
  cluster_mutex,      \* the thread owning ClusterCoordinator::Impl::mutex
  nodes,              \* ClusterCoordinator::Impl::nodes
  rooms,              \* ClusterCoordinator::Impl::rooms
  event_callback,     \* ClusterCoordinator::Impl::event_callback is non-empty
  leader_id,          \* ClusterCoordinator::Impl::leader_id ("" when empty)
  running,            \* ClusterCoordinator::Impl::running
  heartbeat_thread,   \* ClusterCoordinator::Impl::heartbeat_thread was started
  self_node,          \* ClusterCoordinator::Impl::self_node
  cluster_call,       \* the call the calling thread is in, and where
  clusterOut,         \* event_callback calls made by the last operation
  clusterCalls,       \* ClusterCoordinator calls made so far
  capacity_,          \* SpscQueue::capacity_
  buffer_,            \* SpscQueue::buffer_
  head_,              \* SpscQueue::head_
  tail_,              \* SpscQueue::tail_
  producer,           \* the producer thread: where it is inside push
  consumer,           \* the consumer thread: where it is inside pop
  spscPushed,         \* the items of the pushes that returned true, in order
  spscPopped,         \* the items pop returned, in order
  spscCalls,          \* push calls made so far
  mpsc_nodes,         \* the Nodes an MpscQueue allocated: data, next, deletes
  mpsc_head,          \* MpscQueue::head_
  mpsc_tail,          \* MpscQueue::tail_
  stub_,              \* MpscQueue::stub_
  pushers,            \* per producer thread: where it is inside push
  mpsc_destroyed,     \* the MpscQueue destructor has run
  mpscOut,            \* what the last MpscQueue::pop returned
  recovery_config,    \* ConnectionRecovery::Impl::config
  recovery_callback,  \* Impl::callback is set
  recovery_state,     \* ConnectionRecovery::Impl::state
  recovery_stats,     \* ConnectionRecovery::Impl::stats
  recovering,         \* ConnectionRecovery::Impl::recovering
  recovery_thread,    \* Impl::recovery_thread: joinable, and where it runs
  current_attempt,    \* ConnectionRecovery::Impl::current_attempt
  current_delay,      \* ConnectionRecovery::Impl::current_delay, in ms
  recovery_caller,    \* the calling thread: idle, or inside join()
  recoveryOut,        \* the events handed to the recovery callback
  recovery_run,       \* history of the current run of recovery_loop
  recovery_terminated, \* std::terminate was called
  recoveryCalls,      \* calls made on the ConnectionRecovery so far
  jb_config,          \* JitterBuffer::Impl::config
  jb_buffer,          \* JitterBuffer::Impl::buffer
  expected_sequence,  \* JitterBuffer::Impl::expected_sequence
  sequence_initialized, \* JitterBuffer::Impl::sequence_initialized
  playout_start,      \* JitterBuffer::Impl::playout_start, in ms
  playout_started,    \* JitterBuffer::Impl::playout_started
  jb_stats,           \* JitterBuffer::Impl::stats
  jitter_estimate,    \* Impl::jitter_estimate, as num / 16^exp
  last_arrival_delta, \* JitterBuffer::Impl::last_arrival_delta
  jb_now,             \* steady_clock::now(), in ms
  jbOut,              \* what the last JitterBuffer::pop returned
  jbCalls             \* calls made on the JitterBuffer so far

fwdVars == <<forward_callback, ssrc_to_stream, publisher_ssrcs, stats, mutex,
             thr, sinkLog, calls>>
subVars == <<subscriptions, stream_layers, bandwidth_info,
             layer_switch_callback, switched, cycles>>
fbVars == <<fb_config, assemblers, complete_frames, received_sequences,
            highest_sequence, has_keyframe, fb_stats, fbRet, fbHist, fbCalls>>
mixVars == <<mix_config, sources, mixed_callback, speaker_callback,
             active_speaker, mix_stats, mixOut, speakerOut, mixCalls>>
pacerVars == <<pacer_config, send_callback, available_tokens,
               last_process_time, steady_clock, queue, pacer_stats, pacedLog,
               rate_set_at, pacerCalls>>
bcVars == <<bc_config, callback, current_bitrate, target_bitrate,
            current_loss, overusing, since_update, notified, bcCalls>>
iceVars == <<ice_config, callbacks, socket, local_candidates,
             remote_candidates, candidate_pairs, connection_state,
             gathering_state, ice_stats, iceOut, iceCalls, priorityLog>>
rtpVars == <<rtp_packet, rtp_wire, rtp_parsed>>
clusterVars == <<cluster_config, cluster_mutex, nodes, rooms, event_callback,
                 leader_id, running, heartbeat_thread, self_node,
                 cluster_call, clusterOut, clusterCalls>>
spscVars == <<capacity_, buffer_, head_, tail_, producer, consumer,
              spscPushed, spscPopped, spscCalls>>
mpscVars == <<mpsc_nodes, mpsc_head, mpsc_tail, stub_, pushers,
              mpsc_destroyed, mpscOut>>
recoveryVars == <<recovery_config, recovery_callback, recovery_state,
                  recovery_stats, recovering, recovery_thread,
                  current_attempt, current_delay, recovery_caller,
                  recoveryOut, recovery_run, recovery_terminated,
                  recoveryCalls>>
jbVars == <<jb_config, jb_buffer, expected_sequence, sequence_initialized,
            playout_start, playout_started, jb_stats, jitter_estimate,
            last_arrival_delta, jb_now, jbOut, jbCalls>>
mediaVars == <<fbVars, mixVars, pacerVars, bcVars, iceVars, rtpVars,
               clusterVars, spscVars, mpscVars, recoveryVars, jbVars>>
vars == <<fwdVars, subVars, mediaVars, lastOp>>

\* What the actions of one component leave unchanged: the other components.
notFb == <<fwdVars, subVars, mixVars, pacerVars, bcVars, iceVars, rtpVars,
           clusterVars, spscVars, mpscVars, recoveryVars, jbVars>>
notMix == <<fwdVars, subVars, fbVars, pacerVars, bcVars, iceVars, rtpVars,
            clusterVars, spscVars, mpscVars, recoveryVars, jbVars>>
notPacer == <<fwdVars, subVars, fbVars, mixVars, bcVars, iceVars, rtpVars,
              clusterVars, spscVars, mpscVars, recoveryVars, jbVars>>
notBc == <<fwdVars, subVars, fbVars, mixVars, pacerVars, iceVars, rtpVars,
           clusterVars, spscVars, mpscVars, recoveryVars, jbVars>>
notIce == <<fwdVars, subVars, fbVars, mixVars, pacerVars, bcVars, rtpVars,
            clusterVars, spscVars, mpscVars, recoveryVars, jbVars>>
notRtp == <<fwdVars, subVars, fbVars, mixVars, pacerVars, bcVars, iceVars,
            clusterVars, spscVars, mpscVars, recoveryVars, jbVars>>
notCluster == <<fwdVars, subVars, fbVars, mixVars, pacerVars, bcVars,
                iceVars, rtpVars, spscVars, mpscVars, recoveryVars, jbVars>>
notSpsc == <<fwdVars, subVars, fbVars, mixVars, pacerVars, bcVars, iceVars,
             rtpVars, clusterVars, mpscVars, recoveryVars, jbVars>>
notMpsc == <<fwdVars, subVars, fbVars, mixVars, pacerVars, bcVars, iceVars,
             rtpVars, clusterVars, spscVars, recoveryVars, jbVars>>
notRecovery == <<fwdVars, subVars, fbVars, mixVars, pacerVars, bcVars,
                 iceVars, rtpVars, clusterVars, spscVars, mpscVars, jbVars>>
notJb == <<fwdVars, subVars, fbVars, mixVars, pacerVars, bcVars, iceVars,
           rtpVars, clusterVars, spscVars, mpscVars, recoveryVars>>

-----------------------------------------------------------------------------
(* Bounds of the model *)

MaxCalls == 3
MaxPackets == 2
MaxSfuCalls == 2
MaxSfuPackets == 1

(* Program constants *)

MinRewriteSize == 12

-----------------------------------------------------------------------------
(* Input domains *)

Threads == {"io1", "io2"}
Publishers == {"p1", "p2"}
StreamIds == {"a", "b"}
Subscribers == {"u1", "u2"}
Layers == {-1, 0}

\* TLC's integers are 32-bit signed, so the model's SSRCs stay below 2^31.
SsrcA == 42 * 16777216 + 187 * 65536 + 204 * 256 + 221    \* 0x2ABBCCDD
SsrcB == 85 * 16777216 + 102 * 65536 + 119 * 256 + 136    \* 0x55667788
SsrcR == 17 * 16777216 + 34 * 65536 + 51 * 256 + 68       \* 0x11223344
Ssrcs == {SsrcA, SsrcB}

\* RtpStreamInfo: only ssrc and simulcast_layer are read by the forwarder.
RtpStreamInfo(ssrc, layer) == [ssrc |-> ssrc, simulcast_layer |-> layer]

Destination(sub) == <<"10.0.0.2", IF sub = "u1" THEN 5000 ELSE 5002>>

\* ForwardingRule as passed to add_subscription (subscriber_id is overwritten).
ForwardingRule(rew, layer, active) ==
  [subscriber_id |-> "", destination |-> <<"", 0>>, rewritten_ssrc |-> rew,
   preferred_simulcast_layer |-> layer, is_active |-> active]

\* byte k (0 = most significant) of a 32-bit value: (x >> (24 - 8k)) & 0xFF
Byte(x, k) == (x \div (2 ^ (24 - 8 * k))) % 256

\* An RTP-shaped buffer of len bytes whose bytes 8..11 carry ssrc.
\* Sequences are 1-based: byte offset k is element k + 1.
RtpBytes(ssrc, len) ==
  [i \in 1..len |->
     IF i = 1 THEN 128
     ELSE IF i \in 9..12 THEN Byte(ssrc, i - 9)
     ELSE (i * 37) % 256]

-----------------------------------------------------------------------------
(* Containers *)

EmptyMap == [k \in {} |-> 0]
MapPut(m, k, v) == [x \in DOMAIN m \cup {k} |-> IF x = k THEN v ELSE m[x]]
MapErase(m, k) == [x \in DOMAIN m \ {k} |-> m[x]]
SeqErase(s, k) == [i \in 1..(Len(s) - 1) |-> IF i < k THEN s[i] ELSE s[i + 1]]
Range(s) == {s[i] : i \in DOMAIN s}

Op(op, pid, id, ssrc, i, seq, hit) ==
  [op |-> op, pid |-> pid, id |-> id, ssrc |-> ssrc, i |-> i, seq |-> seq,
   hit |-> hit]

-----------------------------------------------------------------------------
(* RtpForwarder *)

PublisherStream(pid, sid, info) ==
  [publisher_id |-> pid, stream_id |-> sid, info |-> info, subscribers |-> <<>>]

\* active_subscribers is a size_t: the model keeps the representative of its
\* value modulo 2^64 that lies nearest zero, so -1 stands for 2^64 - 1.
ForwarderStats ==
  [packets_received |-> 0, packets_forwarded |-> 0, bytes_received |-> 0,
   bytes_forwarded |-> 0, packets_dropped |-> 0, active_publishers |-> 0,
   active_subscribers |-> 0]

Idle == [pc |-> "idle", ssrc |-> 0, packet |-> <<>>, i |-> 0, seq |-> 0]

InitFwd ==
  /\ forward_callback = FALSE
  /\ ssrc_to_stream = EmptyMap
  /\ publisher_ssrcs = EmptyMap
  /\ stats = ForwarderStats
  /\ mutex = {}
  /\ thr = [t \in Threads |-> Idle]
  /\ sinkLog = <<>>
  /\ calls = 0

\* std::lock_guard of a control-plane method: the caller runs once no thread
\* holds the mutex, and the whole method is one step.
Unlocked == mutex = {}

\* Faulty variant of LayerMismatch: the stream's own layer is not tested for >= 0.
LayerMismatch_NoStreamTest(stream, rule) ==
  /\ rule.preferred_simulcast_layer >= 0
  /\ stream.info.simulcast_layer # rule.preferred_simulcast_layer

\* forward_packet: the two "continue" conditions of the loop body
LayerMismatch(stream, rule) ==
  /\ rule.preferred_simulcast_layer >= 0
  /\ stream.info.simulcast_layer >= 0
  /\ stream.info.simulcast_layer # rule.preferred_simulcast_layer

Skipped(stream, rule) == ~rule.is_active \/ LayerMismatch(stream, rule)

\* forward_packet: the rule asks for a rewritten SSRC
Rewrites(stream, rule) ==
  rule.rewritten_ssrc # 0 /\ rule.rewritten_ssrc # stream.info.ssrc

\* Faulty variant of RewriteSsrc: the four bytes are written in host (little-endian)
\* order.
RewriteSsrc_LittleEndian(packet, ssrc) ==
  [i \in 1..Len(packet) |->
     IF Len(packet) >= MinRewriteSize /\ i \in 9..12
     THEN Byte(ssrc, 12 - i) ELSE packet[i]]

\* forward_packet: forward_buffer after assign() and the guarded overwrite
RewriteSsrc(packet, ssrc) ==
  [i \in 1..Len(packet) |->
     IF Len(packet) >= MinRewriteSize /\ i \in 9..12
     THEN Byte(ssrc, i - 9) ELSE packet[i]]

\* forward_packet: the bytes handed to forward_callback for one rule
EmittedBytes(stream, rule, packet) ==
  IF Rewrites(stream, rule) THEN RewriteSsrc(packet, rule.rewritten_ssrc)
  ELSE packet

set_forward_callback(cb) ==
  /\ Unlocked
  /\ forward_callback' = cb
  /\ lastOp' = Op("set_forward_callback", "", "", 0, 0, 0, cb)
  /\ UNCHANGED <<ssrc_to_stream, publisher_ssrcs, stats, mutex, thr, sinkLog,
                 calls, subVars, mediaVars>>

add_publisher(pid, sid, info) ==
  /\ Unlocked
  /\ ssrc_to_stream' =
       MapPut(ssrc_to_stream, info.ssrc, PublisherStream(pid, sid, info))
  /\ publisher_ssrcs' =
       MapPut(publisher_ssrcs, pid,
              Append(IF pid \in DOMAIN publisher_ssrcs
                     THEN publisher_ssrcs[pid] ELSE <<>>, info.ssrc))
  /\ stats' = [stats EXCEPT
                 !.active_publishers = Cardinality(DOMAIN publisher_ssrcs')]
  /\ calls' = calls + 1
  /\ lastOp' = Op("add_publisher", "", "", info.ssrc, 0, 0, FALSE)
  /\ UNCHANGED <<forward_callback, mutex, thr, sinkLog, subVars, mediaVars>>

\* remove_publisher: the erase loop over the publisher's SSRC vector; k is the
\* iterator position.  Yields the stream table and the vector after the loop.
RECURSIVE RemoveLoop(_, _, _, _)
RemoveLoop(streams, ssrcs, sid, k) ==
  IF k > Len(ssrcs) THEN [streams |-> streams, ssrcs |-> ssrcs]
  ELSE IF ssrcs[k] \in DOMAIN streams /\ streams[ssrcs[k]].stream_id = sid
       THEN RemoveLoop(MapErase(streams, ssrcs[k]), SeqErase(ssrcs, k), sid, k)
       ELSE RemoveLoop(streams, ssrcs, sid, k + 1)

remove_publisher(pid, sid) ==
  /\ Unlocked
  /\ IF pid \notin DOMAIN publisher_ssrcs
     THEN UNCHANGED <<ssrc_to_stream, publisher_ssrcs, stats>>
     ELSE LET r == RemoveLoop(ssrc_to_stream, publisher_ssrcs[pid], sid, 1)
          IN /\ ssrc_to_stream' = r.streams
             /\ publisher_ssrcs' =
                  IF r.ssrcs = <<>> THEN MapErase(publisher_ssrcs, pid)
                  ELSE [publisher_ssrcs EXCEPT ![pid] = r.ssrcs]
             /\ stats' = [stats EXCEPT
                  !.active_publishers = Cardinality(DOMAIN publisher_ssrcs')]
  /\ calls' = calls + 1
  /\ lastOp' = Op("remove_publisher", "", "", 0, 0, 0, FALSE)
  /\ UNCHANGED <<forward_callback, mutex, thr, sinkLog, subVars, mediaVars>>

\* add_subscription: push_back of the rule on every stream the publisher's
\* SSRC vector names, one push per element of the vector.
RECURSIVE AddLoop(_, _, _, _)
AddLoop(streams, ssrcs, rule, k) ==
  IF k > Len(ssrcs) THEN streams
  ELSE IF ssrcs[k] \in DOMAIN streams
       THEN AddLoop([streams EXCEPT ![ssrcs[k]].subscribers = Append(@, rule)],
                    ssrcs, rule, k + 1)
       ELSE AddLoop(streams, ssrcs, rule, k + 1)

add_subscription(pid, sub, rule0) ==
  /\ Unlocked
  /\ LET rule == [rule0 EXCEPT !.subscriber_id = sub]
     IN IF pid \notin DOMAIN publisher_ssrcs
        THEN UNCHANGED <<ssrc_to_stream, stats>>
        ELSE /\ ssrc_to_stream' =
                  AddLoop(ssrc_to_stream, publisher_ssrcs[pid], rule, 1)
             /\ stats' = [stats EXCEPT !.active_subscribers = @ + 1]
  /\ calls' = calls + 1
  /\ lastOp' = Op("add_subscription", "", "", 0, 0, 0, FALSE)
  /\ UNCHANGED <<forward_callback, publisher_ssrcs, mutex, thr, sinkLog, subVars, mediaVars>>

\* remove_if + erase on one subscribers vector
RemoveRules(subs, sub) == SelectSeq(subs, LAMBDA r : r.subscriber_id # sub)

remove_subscription(pid, sub) ==
  /\ Unlocked
  /\ IF pid \notin DOMAIN publisher_ssrcs
     THEN UNCHANGED <<ssrc_to_stream, stats>>
     ELSE /\ ssrc_to_stream' =
               [s \in DOMAIN ssrc_to_stream |->
                  IF s \in Range(publisher_ssrcs[pid])
                  THEN [ssrc_to_stream[s] EXCEPT
                          !.subscribers = RemoveRules(@, sub)]
                  ELSE ssrc_to_stream[s]]
          /\ stats' = [stats EXCEPT !.active_subscribers = @ - 1]
  /\ calls' = calls + 1
  /\ lastOp' = Op("remove_subscription", "", "", 0, 0, 0, FALSE)
  /\ UNCHANGED <<forward_callback, publisher_ssrcs, mutex, thr, sinkLog, subVars, mediaVars>>

SetLayer(subs, sub, layer) ==
  [i \in DOMAIN subs |->
     IF subs[i].subscriber_id = sub
     THEN [subs[i] EXCEPT !.preferred_simulcast_layer = layer]
     ELSE subs[i]]

set_simulcast_layer(pid, sub, layer) ==
  /\ Unlocked
  /\ IF pid \notin DOMAIN publisher_ssrcs
     THEN UNCHANGED ssrc_to_stream
     ELSE ssrc_to_stream' =
            [s \in DOMAIN ssrc_to_stream |->
               IF s \in Range(publisher_ssrcs[pid])
               THEN [ssrc_to_stream[s] EXCEPT
                       !.subscribers = SetLayer(@, sub, layer)]
               ELSE ssrc_to_stream[s]]
  /\ calls' = calls + 1
  /\ lastOp' = Op("set_simulcast_layer", "", "", 0, 0, 0, FALSE)
  /\ UNCHANGED <<forward_callback, publisher_ssrcs, stats, mutex, thr,
                 sinkLog, subVars, mediaVars>>

\* Faulty variant of on_rtp_packet_lock: the hot path takes a shared (reader) lock,
\* so I/O threads no longer exclude each other.
on_rtp_packet_lock_shared(t) == t \notin mutex

\* on_rtp_packet's std::lock_guard: an I/O thread enters only when no other
\* thread holds the mutex.
on_rtp_packet_lock(t) == mutex = {}

\* Faulty variant of ReceivedStats: the lookup comes first and a miss returns before
\* the receive counters are touched.
ReceivedStats_LookupFirst(st, size, found) ==
  IF found
  THEN [st EXCEPT !.packets_received = @ + 1, !.bytes_received = @ + size]
  ELSE [st EXCEPT !.packets_dropped = @ + 1]

\* on_rtp_packet: the counters after the two increments at the top of the
\* body and, on a lookup miss, the increment of packets_dropped
ReceivedStats(st, size, found) ==
  [st EXCEPT !.packets_received = @ + 1,
             !.bytes_received = @ + size,
             !.packets_dropped = IF found THEN @ ELSE @ + 1]

\* on_rtp_packet up to the call of forward_packet: lock, receive counters,
\* lookup; a miss counts the drop and returns (unlocking).
on_rtp_packet(t, ssrc, packet) ==
  /\ thr[t].pc = "idle"
  /\ on_rtp_packet_lock(t)
  /\ LET found == ssrc \in DOMAIN ssrc_to_stream
         loops == found /\ ssrc_to_stream[ssrc].subscribers # <<>>
         seq == ReceivedStats(stats, Len(packet), found).packets_received
     IN /\ stats' = ReceivedStats(stats, Len(packet), found)
        /\ thr' = [thr EXCEPT ![t] =
             IF loops
             THEN [pc |-> "forward", ssrc |-> ssrc, packet |-> packet,
                   i |-> 1, seq |-> seq]
             ELSE Idle]
        /\ mutex' = IF loops THEN mutex \cup {t} ELSE mutex
        /\ lastOp' = Op("on_rtp_packet", "", "", ssrc, Len(packet), seq, found)
  /\ UNCHANGED <<forward_callback, ssrc_to_stream, publisher_ssrcs, sinkLog,
                 calls, subVars, mediaVars>>

\* One iteration of forward_packet's loop over stream.subscribers; after the
\* last rule on_rtp_packet returns and the lock_guard releases the mutex.
forward_packet(t) ==
  /\ thr[t].pc = "forward"
  /\ LET stream == ssrc_to_stream[thr[t].ssrc]
         i == thr[t].i
         rule == stream.subscribers[i]
         packet == thr[t].packet
         emit == ~Skipped(stream, rule) /\ forward_callback
     IN /\ sinkLog' =
             IF emit
             THEN Append(sinkLog,
                    [subscriber |-> rule.subscriber_id,
                     packet |-> EmittedBytes(stream, rule, packet),
                     destination |-> rule.destination,
                     ssrc |-> stream.info.ssrc, seq |-> thr[t].seq,
                     rule |-> i, input |-> packet])
             ELSE sinkLog
        /\ stats' =
             IF emit
             THEN [stats EXCEPT !.packets_forwarded = @ + 1,
                                !.bytes_forwarded = @ + Len(packet)]
             ELSE stats
        /\ IF i = Len(stream.subscribers)
           THEN /\ thr' = [thr EXCEPT ![t] = Idle]
                /\ mutex' = mutex \ {t}
           ELSE /\ thr' = [thr EXCEPT ![t].i = i + 1]
                /\ UNCHANGED mutex
        /\ lastOp' = Op("forward_packet", "", "", thr[t].ssrc, i,
                        thr[t].seq, FALSE)
  /\ UNCHANGED <<forward_callback, ssrc_to_stream, publisher_ssrcs, calls, subVars, mediaVars>>

(* Inputs of the forwarder specification *)

Registrations ==
  { <<"p1", "a", RtpStreamInfo(SsrcA, 0)>>,
    <<"p1", "b", RtpStreamInfo(SsrcB, 1)>>,
    <<"p2", "a", RtpStreamInfo(SsrcA, -1)>> }

Rules ==
  { ForwardingRule(0, -1, TRUE),
    ForwardingRule(SsrcA, 1, TRUE),
    ForwardingRule(SsrcR, -1, FALSE) }

Arrivals ==
  { <<SsrcA, RtpBytes(SsrcA, 13)>>,
    <<SsrcB, RtpBytes(SsrcB, 13)>>,
    <<SsrcB, RtpBytes(SsrcB, 10)>> }

WithDestination(rule, sub) == [rule EXCEPT !.destination = Destination(sub)]

FwdControl(budget, regs, pubs, subs, rules, layers) ==
  \/ \E cb \in BOOLEAN : set_forward_callback(cb)
  \/ \E r \in regs : calls < budget /\ add_publisher(r[1], r[2], r[3])
  \/ \E p \in pubs, s \in StreamIds :
       calls < budget /\ remove_publisher(p, s)
  \/ \E p \in pubs, u \in subs, r \in rules :
       calls < budget /\ add_subscription(p, u, WithDestination(r, u))
  \/ \E p \in pubs, u \in subs : calls < budget /\ remove_subscription(p, u)
  \/ \E p \in pubs, u \in subs, l \in layers :
       calls < budget /\ set_simulcast_layer(p, u, l)

FwdPackets(budget, arrivals) ==
  \/ \E t \in Threads, a \in arrivals :
       stats.packets_received < budget /\ on_rtp_packet(t, a[1], a[2])
  \/ \E t \in Threads : forward_packet(t)

-----------------------------------------------------------------------------
(* SubscriptionManager *)

DefaultLayer == 2

SubscriptionKey(sub, pid, sid) == <<sub, pid, sid>>
StreamKey(pid, sid) == <<pid, sid>>

\* SimulcastLayerInfo: width, height and fps are never read by the manager.
SimulcastLayerInfo(index, kbps, active) ==
  [layer_index |-> index, bitrate_kbps |-> kbps, is_active |-> active]

\* BandwidthInfo: packet_loss and rtt_ms are stored but never read.
BandwidthInfo(bps) == [estimated_bps |-> bps, packet_loss |-> 0, rtt_ms |-> 0]

Subscription(pid, sid, target) ==
  [publisher_id |-> pid, stream_id |-> sid, target_layer |-> target,
   current_layer |-> IF target >= 0 THEN target ELSE DefaultLayer,
   is_paused |-> FALSE, bytes_received |-> 0]

InitSub ==
  /\ subscriptions = EmptyMap
  /\ stream_layers = EmptyMap
  /\ bandwidth_info = EmptyMap
  /\ layer_switch_callback = FALSE
  /\ switched = EmptyMap
  /\ cycles = 0

\* Faulty variant of Fits: the bitrate is not compared with the estimate.
Fits_NoBitrateTest(layer, available_bps) == layer.is_active

\* select_best_layer: the condition of the loop body for one layer.  The
\* inputs keep 0 <= bitrate_kbps * 1000 < 2^31, where the int product and
\* its conversion to uint64_t are exact.
Fits(layer, available_bps) ==
  layer.is_active /\ layer.bitrate_kbps * 1000 <= available_bps

\* select_best_layer: the loop over the layer vector, in vector order; every
\* fitting layer overwrites best_layer.
RECURSIVE BestLoop(_, _, _, _)
BestLoop(layers, available_bps, best, k) ==
  IF k > Len(layers) THEN best
  ELSE BestLoop(layers, available_bps,
                IF Fits(layers[k], available_bps)
                THEN layers[k].layer_index ELSE best,
                k + 1)

select_best_layer(sub, skey) ==
  IF sub \notin DOMAIN bandwidth_info THEN DefaultLayer
  ELSE IF skey \notin DOMAIN stream_layers THEN 0
  ELSE BestLoop(stream_layers[skey], bandwidth_info[sub].estimated_bps, 0, 1)

set_layer_switch_callback(cb) ==
  /\ layer_switch_callback' = cb
  /\ lastOp' = Op("set_layer_switch_callback", "", "", 0, 0, 0, cb)
  /\ switched' = EmptyMap
  /\ UNCHANGED <<subscriptions, stream_layers, bandwidth_info, cycles, fwdVars, mediaVars>>

set_available_layers(pid, sid, layers) ==
  /\ stream_layers' = MapPut(stream_layers, StreamKey(pid, sid), layers)
  /\ lastOp' = Op("set_available_layers", pid, sid, 0, 0, 0, TRUE)
  /\ switched' = EmptyMap
  /\ UNCHANGED <<subscriptions, bandwidth_info, layer_switch_callback, cycles, fwdVars, mediaVars>>

subscribe(sub, pid, sid, target) ==
  /\ subscriptions' = MapPut(subscriptions, SubscriptionKey(sub, pid, sid),
                             Subscription(pid, sid, target))
  /\ lastOp' = Op("subscribe", pid, sub, 0, 0, 0, TRUE)
  /\ switched' = EmptyMap
  /\ UNCHANGED <<stream_layers, bandwidth_info, layer_switch_callback, cycles, fwdVars, mediaVars>>

unsubscribe(sub, pid, sid) ==
  /\ subscriptions' = MapErase(subscriptions, SubscriptionKey(sub, pid, sid))
  /\ lastOp' = Op("unsubscribe", pid, sub, 0, 0, 0,
                  SubscriptionKey(sub, pid, sid) \in DOMAIN subscriptions)
  /\ switched' = EmptyMap
  /\ UNCHANGED <<stream_layers, bandwidth_info, layer_switch_callback, cycles, fwdVars, mediaVars>>

\* the (subscriber, publisher) match of set_paused, set_target_layer and
\* get_current_layer: the stream id of the key is not compared
Matches(key, sub, pid) == key[1] = sub /\ key[2] = pid

set_paused(sub, pid, paused) ==
  /\ subscriptions' =
       [k \in DOMAIN subscriptions |->
          IF Matches(k, sub, pid)
          THEN [subscriptions[k] EXCEPT !.is_paused = paused]
          ELSE subscriptions[k]]
  /\ lastOp' = Op("set_paused", pid, sub, 0, 0, 0, paused)
  /\ switched' = EmptyMap
  /\ UNCHANGED <<stream_layers, bandwidth_info, layer_switch_callback, cycles, fwdVars, mediaVars>>

set_target_layer(sub, pid, layer) ==
  /\ subscriptions' =
       [k \in DOMAIN subscriptions |->
          IF Matches(k, sub, pid)
          THEN [subscriptions[k] EXCEPT !.target_layer = layer]
          ELSE subscriptions[k]]
  /\ lastOp' = Op("set_target_layer", pid, sub, 0, 0, 0, TRUE)
  /\ switched' = EmptyMap
  /\ UNCHANGED <<stream_layers, bandwidth_info, layer_switch_callback, cycles, fwdVars, mediaVars>>

update_bandwidth(sub, info) ==
  /\ bandwidth_info' = MapPut(bandwidth_info, sub, info)
  /\ lastOp' = Op("update_bandwidth", "", sub, 0, 0, 0, TRUE)
  /\ switched' = EmptyMap
  /\ UNCHANGED <<subscriptions, stream_layers, layer_switch_callback, cycles, fwdVars, mediaVars>>

\* process: the subscriptions the loop does not skip
AutoAdjusted(s) == ~(s.is_paused \/ s.target_layer >= 0)

\* process: the layer the loop body leaves in current_layer of one entry
ProcessedLayer(key) ==
  IF AutoAdjusted(subscriptions[key])
  THEN select_best_layer(key[1], StreamKey(key[2], key[3]))
  ELSE subscriptions[key].current_layer

\* Faulty variant of SwitchCall: old_layer is read after current_layer was
\* overwritten.
SwitchCall_OldOverwritten(key, old_layer, best_layer) ==
  [subscriber |-> key[1], publisher |-> key[2],
   old |-> best_layer, new |-> best_layer]

\* process: the arguments of one layer_switch_callback call
SwitchCall(key, old_layer, best_layer) ==
  [subscriber |-> key[1], publisher |-> key[2],
   old |-> old_layer, new |-> best_layer]

\* process: every subscription is visited once; the entries are independent
\* of each other, so the iteration order of the unordered_map does not show.
\* switched holds the layer_switch_callback calls made by this run.
process ==
  /\ subscriptions' =
       [k \in DOMAIN subscriptions |->
          [subscriptions[k] EXCEPT !.current_layer = ProcessedLayer(k)]]
  /\ switched' =
       LET changed == {k \in DOMAIN subscriptions :
                         /\ layer_switch_callback
                         /\ ProcessedLayer(k) # subscriptions[k].current_layer}
       IN [k \in changed |->
             SwitchCall(k, subscriptions[k].current_layer, ProcessedLayer(k))]
  /\ cycles' = 1
  /\ lastOp' = Op("process", "", "", 0, 0, 0, TRUE)
  /\ UNCHANGED <<stream_layers, bandwidth_info, layer_switch_callback, fwdVars, mediaVars>>

(* Inputs of the subscription-manager specification *)

SmSubscribers == {"u1"}
SmPublishers == {"p1"}
TargetLayers == {-1, 0}

LayerTables ==
  { <<SimulcastLayerInfo(0, 150, TRUE), SimulcastLayerInfo(1, 500, TRUE),
      SimulcastLayerInfo(2, 1500, TRUE)>>,
    <<SimulcastLayerInfo(1, 500, TRUE), SimulcastLayerInfo(2, 1500, TRUE),
      SimulcastLayerInfo(0, 150, TRUE)>>,
    <<SimulcastLayerInfo(0, 150, TRUE), SimulcastLayerInfo(1, 500, FALSE),
      SimulcastLayerInfo(2, 1500, TRUE)>> }

Estimates == {100000, 800000}

SubControl(subs, pubs, sids, tables, estimates) ==
  \/ \E cb \in BOOLEAN : set_layer_switch_callback(cb)
  \/ \E p \in pubs, s \in sids, l \in tables : set_available_layers(p, s, l)
  \/ \E u \in subs, p \in pubs, s \in sids, l \in TargetLayers :
       subscribe(u, p, s, l)
  \/ \E u \in subs, p \in pubs, s \in sids : unsubscribe(u, p, s)
  \/ \E u \in subs, p \in pubs, b \in BOOLEAN : set_paused(u, p, b)
  \/ \E u \in subs, p \in pubs, l \in TargetLayers : set_target_layer(u, p, l)
  \/ \E u \in subs, e \in estimates : update_bandwidth(u, BandwidthInfo(e))
  \/ process

-----------------------------------------------------------------------------
(* FrameBuffer   src/unnamed/part_013 (frame_buffer.cpp) *)

\* Program constants
SeqMod == 65536        \* uint16_t sequence numbers
NackWindow == 100      \* get_nack_list: highest_sequence - 100
DropThreshold == 10    \* should_request_keyframe: frames_dropped > 10

\* uint16_t arithmetic and the static_cast<int16_t> of a difference
U16(x) == x % SeqMod
Int16(x) == IF U16(x) >= SeqMod \div 2 THEN U16(x) - SeqMod ELSE U16(x)

\* FrameBufferConfig with its default delays, in milliseconds
FrameBufferConfig(wait) ==
  [max_delay |-> 200, target_delay |-> 50, wait_for_keyframe |-> wait]

\* Time passes in steps of max_delay; an age beyond 2 * max_delay is kept as
\* AgeCap, since no comparison of the code tells such ages apart.
TickMs == FrameBufferConfig(TRUE).max_delay
AgeCap == 3 * TickMs
Older(age) == IF age + TickMs > AgeCap THEN AgeCap ELSE age + TickMs

\* A default-constructed FrameAssembler; age stands for now - first_arrival.
FrameAssembler ==
  [timestamp |-> 0, packets |-> EmptyMap, first_sequence |-> 0,
   last_sequence |-> 0, has_first |-> FALSE, has_last |-> FALSE,
   is_keyframe |-> FALSE, age |-> 0]

\* A BufferedFrame; age stands for now - arrival_time.
BufferedFrame(data, ts, first, last, age, key, complete) ==
  [data |-> data, rtp_timestamp |-> ts, sequence_start |-> first,
   sequence_end |-> last, age |-> age, is_keyframe |-> key,
   is_complete |-> complete]

FrameBufferStats ==
  [frames_buffered |-> 0, frames_decoded |-> 0, frames_dropped |-> 0,
   packets_lost |-> 0]

\* is_complete: the value the loop variable is compared with.  The operand
\* last_sequence + 1 is promoted to int and does not wrap: after
\* last_sequence = 65535 it is 65536, which no uint16_t equals.
LoopEnd(a) == a.last_sequence + 1

\* FrameAssembler::is_complete.  The loop walks seq = first_sequence,
\* first_sequence + 1, ... (mod 2^16) and returns false at the first missing
\* number; it returns true when seq reaches LoopEnd.  When LoopEnd is out of
\* the uint16_t range the loop can only end by finding a missing number
\* (with all 65536 numbers stored it would not end at all, which the packet
\* counts of the model never reach).
is_complete(a) ==
  IF ~a.has_first \/ ~a.has_last THEN FALSE
  ELSE IF LoopEnd(a) >= SeqMod THEN FALSE
  ELSE LET n == U16(LoopEnd(a) - a.first_sequence)
       IN /\ n <= Cardinality(DOMAIN a.packets)
          /\ \A i \in 0..(n - 1) : U16(a.first_sequence + i) \in DOMAIN a.packets

\* assemble: the stored payloads met by the walk from first_sequence to
\* last_sequence (mod 2^16), concatenated in the order of the walk.
RECURSIVE Concatenate(_, _, _)
Concatenate(a, todo, data) ==
  IF todo = {} THEN data
  ELSE LET seq == CHOOSE x \in todo :
                    \A y \in todo :
                      U16(x - a.first_sequence) <= U16(y - a.first_sequence)
       IN Concatenate(a, todo \ {seq}, data \o a.packets[seq])

assemble(a) ==
  LET walked == {s \in DOMAIN a.packets :
                   U16(s - a.first_sequence)
                     <= U16(a.last_sequence - a.first_sequence)}
  IN BufferedFrame(Concatenate(a, walked, <<>>), a.timestamp,
                   a.first_sequence, a.last_sequence, a.age, a.is_keyframe,
                   TRUE)

\* cleanup_old_frames: the number of frames its first loop pops from the front
RECURSIVE TooOld(_)
TooOld(frames) ==
  IF frames # <<>> /\ Head(frames).age > fb_config.max_delay
  THEN 1 + TooOld(Tail(frames)) ELSE 0

\* cleanup_old_frames: the assemblers its second loop keeps
KeptAssemblers(asm) ==
  [ts \in {t \in DOMAIN asm : ~(asm[t].age > fb_config.max_delay * 2)} |->
     asm[ts]]

\* Faulty variant of KeyframeGate: the configuration flag is not consulted
\* and the frame's own keyframe flag is ignored.
KeyframeGate_Open(a) == FALSE

\* insert_packet: the test that makes a complete frame be skipped
KeyframeGate(a) ==
  fb_config.wait_for_keyframe /\ ~has_keyframe /\ ~a.is_keyframe

\* What a FrameBuffer call returned: a frame (pop_frame), a list of sequence
\* numbers (get_nack_list) or a flag (should_request_keyframe).
NoFrame == BufferedFrame(<<>>, 0, 0, 0, 0, FALSE, FALSE)
FbRet(kind, frame, nacks, flag, arg) ==
  [kind |-> kind, frame |-> frame, nacks |-> nacks, flag |-> flag, arg |-> arg]
FbVoid == FbRet("void", NoFrame, <<>>, FALSE, 0)

\* History since construction or the last reset(): the packets inserted, the
\* newest sequence number received in wrap-aware order (-1: none), the kind
\* of the first frame queued, whether a keyframe was queued, and the frames
\* dropped since the last keyframe was queued.
FbHist0 ==
  [inserted |-> {}, newest |-> -1, first |-> "none", key |-> FALSE,
   droppedSinceKey |-> 0]

InitFb ==
  /\ assemblers = EmptyMap
  /\ complete_frames = <<>>
  /\ received_sequences = {}
  /\ highest_sequence = 0
  /\ has_keyframe = FALSE
  /\ fb_stats = FrameBufferStats
  /\ fbRet = FbVoid
  /\ fbHist = FbHist0
  /\ fbCalls = 0

\* insert_packet: the assembler of the timestamp after the packet is stored
\* and its bounds and keyframe flag are updated
Stored(data, sequence, timestamp, marker, is_keyframe_packet) ==
  LET found == IF timestamp \in DOMAIN assemblers
               THEN assemblers[timestamp] ELSE FrameAssembler
      fresh == IF DOMAIN found.packets = {}
               THEN [found EXCEPT !.timestamp = timestamp, !.age = 0]
               ELSE found
      put == [fresh EXCEPT !.packets = MapPut(@, sequence, data)]
      low == IF ~put.has_first \/ Int16(sequence - put.first_sequence) < 0
             THEN [put EXCEPT !.first_sequence = sequence, !.has_first = TRUE]
             ELSE put
      high == IF marker
              THEN [low EXCEPT !.last_sequence = sequence, !.has_last = TRUE]
              ELSE low
  IN IF is_keyframe_packet THEN [high EXCEPT !.is_keyframe = TRUE] ELSE high

\* the history after one more packet
Inserted(h, data, sequence, timestamp) ==
  [h EXCEPT !.inserted = @ \cup {<<timestamp, sequence, data>>},
            !.newest = IF @ = -1 \/ Int16(sequence - @) > 0
                       THEN sequence ELSE @]

\* the history after a frame was queued and `dropped` frames were then dropped
Queued(h, key, dropped) ==
  [h EXCEPT !.first = IF @ = "none" THEN (IF key THEN "key" ELSE "delta") ELSE @,
            !.key = @ \/ key,
            !.droppedSinceKey = (IF key THEN 0 ELSE @) + dropped]

insert_packet(data, sequence, timestamp, marker, is_keyframe_packet) ==
  LET a == Stored(data, sequence, timestamp, marker, is_keyframe_packet)
      h == Inserted(fbHist, data, sequence, timestamp)
      queued == Append(complete_frames, assemble(a))
  IN
  /\ received_sequences' = received_sequences \cup {sequence}
  /\ highest_sequence' = IF Int16(sequence - highest_sequence) > 0
                         THEN sequence ELSE highest_sequence
  /\ IF is_complete(a) /\ KeyframeGate(a)
     THEN \* early return: the frame stays in its assembler, no cleanup
          /\ assemblers' = MapPut(assemblers, timestamp, a)
          /\ fbHist' = h
          /\ UNCHANGED <<complete_frames, has_keyframe, fb_stats>>
     ELSE IF is_complete(a)
     THEN /\ has_keyframe' = (has_keyframe \/ a.is_keyframe)
          /\ complete_frames' = SubSeq(queued, TooOld(queued) + 1, Len(queued))
          /\ assemblers' = KeptAssemblers(MapErase(assemblers, timestamp))
          /\ fb_stats' = [fb_stats EXCEPT !.frames_buffered = @ + 1,
                                          !.frames_dropped = @ + TooOld(queued)]
          /\ fbHist' = Queued(h, a.is_keyframe, TooOld(queued))
     ELSE /\ complete_frames' =
               SubSeq(complete_frames, TooOld(complete_frames) + 1,
                      Len(complete_frames))
          /\ assemblers' = KeptAssemblers(MapPut(assemblers, timestamp, a))
          /\ fb_stats' = [fb_stats EXCEPT
                            !.frames_dropped = @ + TooOld(complete_frames)]
          /\ fbHist' = [h EXCEPT
                          !.droppedSinceKey = @ + TooOld(complete_frames)]
          /\ UNCHANGED has_keyframe
  /\ fbCalls' = fbCalls + 1
  /\ fbRet' = FbVoid
  /\ lastOp' = Op("insert_packet", "", "", 0, 0, sequence, marker)
  /\ UNCHANGED <<fb_config, notFb>>

pop_frame ==
  /\ IF complete_frames = <<>>
        \/ Head(complete_frames).age < fb_config.target_delay
     THEN /\ fbRet' = FbRet("nullopt", NoFrame, <<>>, FALSE, 0)
          /\ UNCHANGED <<complete_frames, fb_stats>>
     ELSE /\ fbRet' = FbRet("frame", Head(complete_frames), <<>>, TRUE, 0)
          /\ complete_frames' = Tail(complete_frames)
          /\ fb_stats' = [fb_stats EXCEPT !.frames_decoded = @ + 1]
  /\ lastOp' = Op("pop_frame", "", "", 0, 0, 0, FALSE)
  /\ UNCHANGED <<fb_config, assemblers, received_sequences, highest_sequence,
                 has_keyframe, fbHist, fbCalls, notFb>>

\* get_nack_list: the loop from seq up to highest_sequence (mod 2^16)
RECURSIVE NackLoop(_, _, _)
NackLoop(seq, nacks, max_count) ==
  IF seq # highest_sequence /\ Len(nacks) < max_count
  THEN NackLoop(U16(seq + 1),
                IF seq \notin received_sequences
                THEN Append(nacks, seq) ELSE nacks,
                max_count)
  ELSE nacks

get_nack_list(max_count) ==
  LET nacks == NackLoop(U16(highest_sequence - NackWindow), <<>>, max_count)
  IN /\ fbRet' = FbRet("nacks", NoFrame, nacks, FALSE, max_count)
     /\ fb_stats' = [fb_stats EXCEPT !.packets_lost = @ + Len(nacks)]
     /\ lastOp' = Op("get_nack_list", "", "", 0, 0, 0, FALSE)
     /\ UNCHANGED <<fb_config, assemblers, complete_frames, received_sequences,
                    highest_sequence, has_keyframe, fbHist, fbCalls, notFb>>

should_request_keyframe ==
  /\ fbRet' = FbRet("flag", NoFrame, <<>>,
                    IF ~has_keyframe THEN TRUE
                    ELSE fb_stats.frames_dropped > DropThreshold, 0)
  /\ lastOp' = Op("should_request_keyframe", "", "", 0, 0, 0, FALSE)
  /\ UNCHANGED <<fb_config, assemblers, complete_frames, received_sequences,
                 highest_sequence, has_keyframe, fb_stats, fbHist, fbCalls,
                 notFb>>

\* reset: highest_sequence is not among the members it clears
reset ==
  /\ assemblers' = EmptyMap
  /\ complete_frames' = <<>>
  /\ received_sequences' = {}
  /\ has_keyframe' = FALSE
  /\ fb_stats' = FrameBufferStats
  /\ fbHist' = FbHist0
  /\ fbRet' = FbVoid
  /\ lastOp' = Op("reset", "", "", 0, 0, 0, FALSE)
  /\ UNCHANGED <<fb_config, highest_sequence, fbCalls, notFb>>

\* steady_clock advances by TickMs between two calls
FbTick ==
  /\ \/ \E ts \in DOMAIN assemblers : assemblers[ts].age < AgeCap
     \/ \E i \in DOMAIN complete_frames : complete_frames[i].age < AgeCap
  /\ assemblers' = [ts \in DOMAIN assemblers |->
                      [assemblers[ts] EXCEPT !.age = Older(@)]]
  /\ complete_frames' = [i \in DOMAIN complete_frames |->
                           [complete_frames[i] EXCEPT !.age = Older(@)]]
  /\ lastOp' = Op("tick", "", "", 0, 0, 0, FALSE)
  /\ UNCHANGED <<fb_config, received_sequences, highest_sequence, has_keyframe,
                 fb_stats, fbRet, fbHist, fbCalls, notFb>>

(* Inputs of the frame-buffer specifications *)

MaxInserts == 3
MaxLost == 1
MaxStream == 13

RtpPacket(data, sequence, timestamp, marker, is_keyframe_packet) ==
  [data |-> data, sequence |-> sequence, timestamp |-> timestamp,
   marker |-> marker, keyframe |-> is_keyframe_packet]

\* A three-packet keyframe, a two-packet frame across the wrap, a one-packet
\* keyframe on the last sequence number, and a packet far from the others.
FbPackets ==
  { RtpPacket(<<1>>, 10, 1000, FALSE, TRUE),
    RtpPacket(<<2>>, 11, 1000, FALSE, FALSE),
    RtpPacket(<<3>>, 12, 1000, TRUE, FALSE),
    RtpPacket(<<4>>, 65535, 2000, FALSE, FALSE),
    RtpPacket(<<5>>, 0, 2000, TRUE, FALSE),
    RtpPacket(<<6>>, 65535, 3000, TRUE, TRUE),
    RtpPacket(<<7>>, 40000, 4000, TRUE, FALSE) }

NackCounts == {2}

\* A stream of one-packet frames, one per timestamp; every twelfth is a
\* keyframe.
KeyframeEvery == 12
StreamPacket(k) ==
  RtpPacket(<<k % 256>>, U16(k + 1), 3000 * (k + 1), TRUE, k % KeyframeEvery = 0)

NextFb ==
  \/ \E p \in FbPackets :
       /\ fbCalls < MaxInserts
       /\ insert_packet(p.data, p.sequence, p.timestamp, p.marker, p.keyframe)
  \/ pop_frame
  \/ \E n \in NackCounts : fb_stats.packets_lost < MaxLost /\ get_nack_list(n)
  \/ should_request_keyframe
  \/ reset
  \/ FbTick

NextFbStream ==
  \/ /\ fbCalls < MaxStream
     /\ LET p == StreamPacket(fbCalls)
        IN insert_packet(p.data, p.sequence, p.timestamp, p.marker, p.keyframe)
  \/ pop_frame
  \/ should_request_keyframe
  \/ FbTick

-----------------------------------------------------------------------------
(* AudioMixer   src/server/src/audio_mixer.cpp *)

\* Program constants
Int16Min == -32768
Int16Max == 32767

AudioSourceConfig(sample_rate, channels, frame_duration_ms) ==
  [sample_rate |-> sample_rate, channels |-> channels,
   frame_duration_ms |-> frame_duration_ms]

\* Impl::Impl: frame_size, with int division
frame_size ==
  ((mix_config.sample_rate * mix_config.frame_duration_ms) \div 1000)
    * mix_config.channels

\* MixingParams.  volume is kept in halves (2 stands for 1.0f), so that the
\* products below stay integers; pan is one of -1, 0, 1.
MixingParams(volume, pan, muted) ==
  [volume |-> volume, pan |-> pan, muted |-> muted]

\* A silent buffer of frame_size samples
Zeros == [i \in 1..frame_size |-> 0]

\* The floor level -96.0f is kept as 0, any other level as the sum of
\* squares it was computed from: for buffers of one size the order of the
\* levels in dBFS is the order of these sums.
FloorLevel == 0

AudioSource(id, params) ==
  [id |-> id, params |-> params, buffer |-> Zeros, last_timestamp |-> 0,
   audio_level_db |-> FloorLevel, has_data |-> FALSE]

\* static_cast<int32_t> of a float: truncation toward zero of num / den
Trunc(num, den) == IF num >= 0 THEN num \div den ELSE -((-num) \div den)

\* calculate_level: -96 for an empty buffer or an rms below 1.0, otherwise
\* 20 log10(rms / 32768), kept as the sum of squares
RECURSIVE SumSquares(_, _)
SumSquares(samples, i) ==
  IF i > Len(samples) THEN 0
  ELSE samples[i] * samples[i] + SumSquares(samples, i + 1)

calculate_level(samples) ==
  IF samples = <<>> THEN FloorLevel
  ELSE IF SumSquares(samples, 1) < Len(samples) THEN FloorLevel
  ELSE SumSquares(samples, 1)

\* update_active_speaker: highest_level > -40.0f.  -40 dBFS is an rms of
\* 327.68, i.e. a mean square of 107374.1824 = 67108864 / 625; a sum of
\* squares is an integer, so it exceeds frame_size times that value exactly
\* when it exceeds the integer part.
AboveMinimum(level) ==
  level # FloorLevel /\ level > (67108864 * frame_size) \div 625

\* update_active_speaker: the sources the loop can leave in `loudest`.  The
\* loop keeps the first source of the iteration that has the highest level
\* above -96; the unordered_map decides which one that is among equals.
Loudest ==
  LET heard == {id \in DOMAIN sources :
                  /\ ~sources[id].params.muted
                  /\ sources[id].audio_level_db > FloorLevel}
  IN IF heard = {} THEN {""}
     ELSE {id \in heard :
             \A o \in heard :
               sources[o].audio_level_db <= sources[id].audio_level_db}

HighestLevel(loudest) ==
  IF loudest = "" THEN FloorLevel ELSE sources[loudest].audio_level_db

\* mono: static_cast<int32_t>(source.buffer[i] * source.params.volume)
Scaled(sample, volume) == Trunc(sample * volume, 2)

\* apply_volume_and_pan: the int32_t added to `left` or `right` for one
\* sample, i.e. the truncated product of the sample and
\* volume * sqrt((1 -/+ pan) / 2).  For pan = 0 the gain is volume / sqrt(2):
\* the truncated product is the largest k with 2 k^2 <= (sample * volume)^2.
HalfPower(x) ==
  LET m == IF x >= 0 THEN x ELSE -x
      k0 == (m * 7071) \div 10000
      k == IF 2 * (k0 + 1) * (k0 + 1) <= m * m THEN k0 + 1 ELSE k0
  IN IF x >= 0 THEN k ELSE -k

Panned(sample, params, right) ==
  LET x == Scaled(sample, params.volume)
  IN IF params.pan = 0 THEN HalfPower(x)
     ELSE IF (params.pan = 1) = right THEN x ELSE 0

\* process, stereo branch: what one source adds to mix_buffer at position i
\* (1-based).  `left` and `right` are zeroed once per pair of samples: the
\* odd position receives `right` after both calls of apply_volume_and_pan.
StereoTerm(source, i) ==
  IF i % 2 = 1
  THEN Panned(source.buffer[i], source.params, FALSE)
  ELSE Panned(source.buffer[i - 1], source.params, TRUE)
         + Panned(source.buffer[i], source.params, TRUE)

\* process: what one source adds to mix_buffer at position i
MixTerm(source, i) ==
  IF mix_config.channels = 1
  THEN Scaled(source.buffer[i], source.params.volume)
  ELSE StereoTerm(source, i)

\* process: the sources mixed for one recipient
Mixed(recipient_id) ==
  {id \in DOMAIN sources :
     /\ id # recipient_id
     /\ sources[id].has_data
     /\ ~sources[id].params.muted}

RECURSIVE Accumulate(_, _)
Accumulate(ids, i) ==
  IF ids = {} THEN 0
  ELSE LET id == CHOOSE x \in ids : TRUE
       IN MixTerm(sources[id], i) + Accumulate(ids \ {id}, i)

\* std::clamp to the int16_t range
Saturate(val) ==
  IF val < Int16Min THEN Int16Min ELSE IF val > Int16Max THEN Int16Max ELSE val

\* process: output_buffer for one recipient
output_buffer(recipient_id) ==
  [i \in 1..frame_size |-> Saturate(Accumulate(Mixed(recipient_id), i))]

InitMix ==
  /\ sources = EmptyMap
  /\ mixed_callback = FALSE
  /\ speaker_callback = FALSE
  /\ active_speaker = ""
  /\ mix_stats = [active_sources |-> 0, mixed_frames |-> 0]
  /\ mixOut = EmptyMap
  /\ speakerOut = <<>>
  /\ mixCalls = 0

set_mixed_audio_callback(cb) ==
  /\ mixed_callback' = cb
  /\ lastOp' = Op("set_mixed_audio_callback", "", "", 0, 0, 0, cb)
  /\ UNCHANGED <<mix_config, sources, speaker_callback, active_speaker,
                 mix_stats, mixOut, speakerOut, mixCalls, notMix>>

set_active_speaker_callback(cb) ==
  /\ speaker_callback' = cb
  /\ lastOp' = Op("set_active_speaker_callback", "", "", 0, 0, 0, cb)
  /\ UNCHANGED <<mix_config, sources, mixed_callback, active_speaker,
                 mix_stats, mixOut, speakerOut, mixCalls, notMix>>

add_source(participant_id, params) ==
  /\ sources' = MapPut(sources, participant_id,
                       AudioSource(participant_id, params))
  /\ mix_stats' = [mix_stats EXCEPT
                     !.active_sources = Cardinality(DOMAIN sources')]
  /\ mixCalls' = mixCalls + 1
  /\ lastOp' = Op("add_source", participant_id, "", 0, 0, 0, FALSE)
  /\ UNCHANGED <<mix_config, mixed_callback, speaker_callback, active_speaker,
                 mixOut, speakerOut, notMix>>

remove_source(participant_id) ==
  /\ sources' = MapErase(sources, participant_id)
  /\ mix_stats' = [mix_stats EXCEPT
                     !.active_sources = Cardinality(DOMAIN sources')]
  /\ active_speaker' = IF active_speaker = participant_id
                       THEN "" ELSE active_speaker
  /\ mixCalls' = mixCalls + 1
  /\ lastOp' = Op("remove_source", participant_id, "", 0, 0, 0, FALSE)
  /\ UNCHANGED <<mix_config, mixed_callback, speaker_callback, mixOut,
                 speakerOut, notMix>>

set_mixing_params(participant_id, params) ==
  /\ sources' = IF participant_id \in DOMAIN sources
                THEN [sources EXCEPT ![participant_id].params = params]
                ELSE sources
  /\ mixCalls' = mixCalls + 1
  /\ lastOp' = Op("set_mixing_params", participant_id, "", 0, 0, 0, FALSE)
  /\ UNCHANGED <<mix_config, mixed_callback, speaker_callback, active_speaker,
                 mix_stats, mixOut, speakerOut, notMix>>

\* push_audio: the first min(samples.size(), buffer.size()) samples are
\* copied over the buffer, the rest of the buffer keeps what it held
Copied(buffer, samples) ==
  [i \in 1..Len(buffer) |-> IF i <= Len(samples) THEN samples[i] ELSE buffer[i]]

push_audio(participant_id, samples, timestamp) ==
  /\ sources' =
       IF participant_id \notin DOMAIN sources THEN sources
       ELSE LET buffer == Copied(sources[participant_id].buffer, samples)
            IN [sources EXCEPT
                  ![participant_id].buffer = buffer,
                  ![participant_id].audio_level_db = calculate_level(buffer),
                  ![participant_id].last_timestamp = timestamp,
                  ![participant_id].has_data = TRUE]
  /\ mixCalls' = mixCalls + 1
  /\ lastOp' = Op("push_audio", participant_id, "", 0, 0, 0, FALSE)
  /\ UNCHANGED <<mix_config, mixed_callback, speaker_callback, active_speaker,
                 mix_stats, mixOut, speakerOut, notMix>>

\* AudioMixer::process
AudioMixer_process ==
  /\ IF DOMAIN sources = {}
     THEN UNCHANGED <<sources, active_speaker, mix_stats, mixOut, speakerOut>>
     ELSE /\ \E loudest \in Loudest :
               LET switch == /\ AboveMinimum(HighestLevel(loudest))
                             /\ loudest # active_speaker
               IN /\ active_speaker' = IF switch THEN loudest
                                       ELSE active_speaker
                  /\ speakerOut' =
                       IF switch /\ speaker_callback
                       THEN <<[id |-> loudest,
                               level |-> HighestLevel(loudest)]>>
                       ELSE <<>>
          /\ mixOut' =
               IF mixed_callback
               THEN [r \in DOMAIN sources |->
                       [samples |-> output_buffer(r),
                        timestamp |-> sources[r].last_timestamp]]
               ELSE EmptyMap
          /\ mix_stats' = [mix_stats EXCEPT !.mixed_frames = @ + 1]
          /\ sources' = [id \in DOMAIN sources |->
                           [sources[id] EXCEPT !.has_data = FALSE]]
  /\ lastOp' = Op("AudioMixer_process", "", "", 0, 0, 0, DOMAIN sources # {})
  /\ UNCHANGED <<mix_config, mixed_callback, speaker_callback, mixCalls, notMix>>

(* Inputs of the mixer specification *)

MaxMixCalls == 4
MaxMixTicks == 2

MixConfigs == { AudioSourceConfig(2000, 1, 1), AudioSourceConfig(1000, 2, 1) }
MixParticipants == {"p1", "p2"}
MixParams == { MixingParams(2, 0, FALSE), MixingParams(4, 1, FALSE),
               MixingParams(2, 0, TRUE) }
MixFrames == { <<20000, 20000>>, <<1000, 500>>, <<100, 100>> }

NextMix ==
  \/ \E cb \in BOOLEAN : set_mixed_audio_callback(cb)
  \/ \E cb \in BOOLEAN : set_active_speaker_callback(cb)
  \/ \E id \in MixParticipants :
       mixCalls < MaxMixCalls /\ add_source(id, MixingParams(2, 0, FALSE))
  \/ \E id \in MixParticipants : mixCalls < MaxMixCalls /\ remove_source(id)
  \/ \E id \in MixParticipants, params \in MixParams :
       mixCalls < MaxMixCalls /\ set_mixing_params(id, params)
  \/ \E id \in MixParticipants, samples \in MixFrames :
       mixCalls < MaxMixCalls /\ push_audio(id, samples, mixCalls + 1)
  \/ mix_stats.mixed_frames < MaxMixTicks /\ AudioMixer_process

-----------------------------------------------------------------------------
(* RtpPacer   src/unnamed/part_009, src/core/include/rtc/turn_client.h *)

\* Time is counted in half milliseconds, so that the truncation of
\* duration_cast<milliseconds> in process() is visible.
UnitsPerMs == 2

\* RtpPacer::Config (pacing_interval is never read by the implementation).
PacerConfig(target_bitrate_bps, bucket_size_bytes, max_queue_size) ==
  [ target_bitrate_bps |-> target_bitrate_bps,
    bucket_size_bytes |-> bucket_size_bytes,
    max_queue_size |-> max_queue_size ]

\* PacedPacket; enqueue_time is written by enqueue and never read.
PacedPacket(data, destination, priority) ==
  [ data |-> data, destination |-> destination, priority |-> priority ]

PacerStats ==
  [ packets_sent |-> 0, bytes_sent |-> 0, packets_dropped |-> 0 ]

\* RtpPacer::Impl::Impl: the bucket starts full.
InitPacer ==
  /\ send_callback = FALSE
  /\ available_tokens = pacer_config.bucket_size_bytes
  /\ last_process_time = 0
  /\ steady_clock = 0
  /\ queue = <<>>
  /\ pacer_stats = PacerStats
  /\ pacedLog = <<>>
  /\ rate_set_at = -1
  /\ pacerCalls = 0

RtpPacer_set_send_callback(cb) ==
  /\ send_callback' = cb
  /\ lastOp' = Op("RtpPacer_set_send_callback", "", "", 0, 0, 0, cb)
  /\ UNCHANGED <<pacer_config, available_tokens, last_process_time,
                 steady_clock, queue, pacer_stats, pacedLog, rate_set_at,
                 pacerCalls, notPacer>>

\* PacketCompare: a is ordered before b, so b leaves the queue first.
PacketCompare(a, b) == a.priority < b.priority

\* std::priority_queue keeps its vector as a binary heap; position i of the
\* vector (counted from 0) is element i + 1 of the sequence.
Parent(i) == (i - 1) \div 2

\* std::__push_heap: value moves up from the hole while its parent is
\* ordered before it.
RECURSIVE PushHeap(_, _, _, _)
PushHeap(h, hole, top, value) ==
  IF hole > top /\ PacketCompare(h[Parent(hole) + 1], value)
  THEN PushHeap([h EXCEPT ![hole + 1] = h[Parent(hole) + 1]],
                Parent(hole), top, value)
  ELSE [h EXCEPT ![hole + 1] = value]

\* queue.push(packet): push_back, then std::push_heap.
Pushed(h, packet) == PushHeap(Append(h, packet), Len(h), 0, packet)

\* std::__adjust_heap: the hole at the root moves down to a leaf, taking the
\* child that is not ordered before the other, then value is pushed up.
RECURSIVE AdjustHeap(_, _, _, _)
AdjustHeap(h, hole, len, value) ==
  IF hole < (len - 1) \div 2
  THEN LET right == 2 * (hole + 1)
           child == IF PacketCompare(h[right + 1], h[right])
                    THEN right - 1 ELSE right
       IN AdjustHeap([h EXCEPT ![hole + 1] = h[child + 1]], child, len, value)
  ELSE IF len % 2 = 0 /\ hole = (len - 2) \div 2
  THEN PushHeap([h EXCEPT ![hole + 1] = h[2 * hole + 2]],
                2 * hole + 1, 0, value)
  ELSE PushHeap(h, hole, 0, value)

\* queue.pop(): std::pop_heap, then pop_back.
Popped(h) ==
  IF Len(h) <= 1 THEN <<>>
  ELSE AdjustHeap(SubSeq(h, 1, Len(h) - 1), 0, Len(h) - 1, h[Len(h)])

\* Faulty variant of QueueFull: the queue never counts as full.
QueueFull_Never(q, cfg) == FALSE

\* queue.size() >= config.max_queue_size
QueueFull(q, cfg) == Len(q) >= cfg.max_queue_size

enqueue(data, destination, priority) ==
  /\ pacerCalls' = pacerCalls + 1
  /\ IF QueueFull(queue, pacer_config)
     THEN /\ pacer_stats' = [pacer_stats EXCEPT
                               !.packets_dropped = @ + 1]
          /\ lastOp' = Op("enqueue", "", "", 0, priority, Len(data), FALSE)
          /\ UNCHANGED queue
     ELSE /\ queue' = Pushed(queue, PacedPacket(data, destination, priority))
          /\ lastOp' = Op("enqueue", "", "", 0, priority, Len(data), TRUE)
          /\ UNCHANGED pacer_stats
  /\ UNCHANGED <<pacer_config, send_callback, available_tokens,
                 last_process_time, steady_clock, pacedLog, rate_set_at,
                 notPacer>>

\* duration_cast<milliseconds>(now - last_process_time).count()
ElapsedMs(now, last) == (now - last) \div UnitsPerMs

\* (target_bitrate_bps / 8) * elapsed.count() / 1000, in integer arithmetic.
NewTokens(cfg, elapsed_ms) ==
  ((cfg.target_bitrate_bps \div 8) * elapsed_ms) \div 1000

\* Faulty variant of Refilled: the bucket is not capped at its size.
Refilled_Uncapped(cfg, tokens, new_tokens) == tokens + new_tokens

\* std::min(available_tokens + new_tokens, bucket_size_bytes)
Refilled(cfg, tokens, new_tokens) ==
  IF tokens + new_tokens < cfg.bucket_size_bytes
  THEN tokens + new_tokens ELSE cfg.bucket_size_bytes

\* The while loop of process(): what is left of the queue and of the tokens,
\* and the packets sent, in order.
RECURSIVE Drain(_, _)
Drain(q, tokens) ==
  IF q = <<>> \/ Len(q[1].data) > tokens
  THEN [queue |-> q, tokens |-> tokens, sent |-> <<>>]
  ELSE LET r == Drain(Popped(q), tokens - Len(q[1].data))
       IN [r EXCEPT !.sent = <<q[1]>> \o @]

RECURSIVE TotalSize(_)
TotalSize(packets) ==
  IF packets = <<>> THEN 0
  ELSE Len(Head(packets).data) + TotalSize(Tail(packets))

\* One send_callback call, with the time at which it was made.
PacedCall(packet, now) ==
  [ data |-> packet.data, destination |-> packet.destination,
    priority |-> packet.priority, at |-> now ]

RtpPacer_process ==
  LET elapsed == ElapsedMs(steady_clock, last_process_time)
      filled == Refilled(pacer_config, available_tokens,
                         NewTokens(pacer_config, elapsed))
      r == Drain(queue, filled)
  IN
  /\ last_process_time' = steady_clock
  /\ available_tokens' = r.tokens
  /\ queue' = r.queue
  /\ pacer_stats' = [pacer_stats EXCEPT
                       !.packets_sent = @ + Len(r.sent),
                       !.bytes_sent = @ + TotalSize(r.sent)]
  /\ pacedLog' = IF send_callback
                 THEN pacedLog \o
                      [k \in 1..Len(r.sent) |->
                         PacedCall(r.sent[k], steady_clock)]
                 ELSE pacedLog
  /\ lastOp' = Op("RtpPacer_process", "", "", 0, Len(r.sent), 0,
                  send_callback)
  /\ UNCHANGED <<pacer_config, send_callback, steady_clock, rate_set_at,
                 pacerCalls, notPacer>>

set_target_bitrate(bitrate_bps) ==
  /\ pacer_config' = [pacer_config EXCEPT !.target_bitrate_bps = bitrate_bps]
  /\ rate_set_at' = steady_clock
  /\ pacerCalls' = pacerCalls + 1
  /\ lastOp' = Op("set_target_bitrate", "", "", 0, bitrate_bps, 0, FALSE)
  /\ UNCHANGED <<send_callback, available_tokens, last_process_time,
                 steady_clock, queue, pacer_stats, pacedLog, notPacer>>

clear ==
  /\ queue' = <<>>
  /\ pacerCalls' = pacerCalls + 1
  /\ lastOp' = Op("clear", "", "", 0, 0, 0, FALSE)
  /\ UNCHANGED <<pacer_config, send_callback, available_tokens,
                 last_process_time, steady_clock, pacer_stats, pacedLog,
                 rate_set_at, notPacer>>

\* std::chrono::steady_clock advances by half a millisecond.
PacerTick ==
  /\ steady_clock' = steady_clock + 1
  /\ lastOp' = Op("PacerTick", "", "", 0, 0, 0, FALSE)
  /\ UNCHANGED <<pacer_config, send_callback, available_tokens,
                 last_process_time, queue, pacer_stats, pacedLog,
                 rate_set_at, pacerCalls, notPacer>>

(* Inputs of the pacer specification *)

MaxPacerCalls == 3
MaxPacerTime == 3

PacerConfigs == { PacerConfig(8000, 3, 3), PacerConfig(4000, 3, 2) }
PacerRates == { 4000, 8000 }
PacerSizes == { 2, 4 }
PacerPriorities == { 0, 1 }

\* A payload of the given size, every byte the number of the call.
PacerData(size, k) == [i \in 1..size |-> k]

NextPacer ==
  \/ \E cb \in BOOLEAN : RtpPacer_set_send_callback(cb)
  \/ \E size \in PacerSizes, priority \in PacerPriorities :
       /\ pacerCalls < MaxPacerCalls
       /\ enqueue(PacerData(size, pacerCalls + 1), "d1", priority)
  \/ RtpPacer_process
  \/ \E bps \in PacerRates :
       pacerCalls < MaxPacerCalls /\ set_target_bitrate(bps)
  \/ pacerCalls < MaxPacerCalls /\ clear
  \/ steady_clock < MaxPacerTime /\ PacerTick

-----------------------------------------------------------------------------
(* BitrateController   src/video/src/video_placeholder.cpp *)

\* The rates of BitrateControllerConfig and the recovery rate 1.02, in
\* hundredths, and the loss thresholds 0.02f and 0.005f, per mille.
IncreaseRate == 108
DecreaseRate == 85
RecoveryRate == 102
LossThreshold == 20
RecoveredLoss == 5
UpdateIntervalMs == 25

BitrateControllerConfig(start_bitrate_bps, min_bitrate_bps, max_bitrate_bps) ==
  [ start_bitrate_bps |-> start_bitrate_bps,
    min_bitrate_bps |-> min_bitrate_bps,
    max_bitrate_bps |-> max_bitrate_bps,
    increase_rate |-> IncreaseRate,
    decrease_rate |-> DecreaseRate,
    loss_threshold |-> LossThreshold ]

\* static_cast<uint64_t>(current_bitrate * rate): for bitrates below 2^16
\* the floating-point product truncates to the same integer as the exact one.
TimesRate(bitrate, rate) == (bitrate * rate) \div 100

\* std::clamp(v, lo, hi)
Clamp(v, lo, hi) == IF v < lo THEN lo ELSE IF hi < v THEN hi ELSE v

\* std::min(new_bitrate, target_bitrate)
RespectRemb(new_bitrate, remb) ==
  IF remb < new_bitrate THEN remb ELSE new_bitrate

\* update_bitrate: the rate-controlled bitrate before clamping.
Probed ==
  IF current_loss > bc_config.loss_threshold
  THEN TimesRate(current_bitrate, bc_config.decrease_rate)
  ELSE IF ~overusing
  THEN TimesRate(current_bitrate, bc_config.increase_rate)
  ELSE TimesRate(current_bitrate, RecoveryRate)

\* update_bitrate: the new value of overusing.
UpdatedOverusing ==
  IF current_loss > bc_config.loss_threshold THEN TRUE
  ELSE IF ~overusing THEN FALSE
  ELSE ~(current_loss < RecoveredLoss)

InitBc ==
  /\ callback = FALSE
  /\ current_bitrate = bc_config.start_bitrate_bps
  /\ target_bitrate = bc_config.start_bitrate_bps
  /\ current_loss = 0
  /\ overusing = FALSE
  /\ since_update = 0
  /\ notified = <<>>
  /\ bcCalls = 0

\* update_bitrate with target_bitrate already assigned (primed).
update_bitrate(remb) ==
  LET new_bitrate ==
        RespectRemb(Clamp(Probed, bc_config.min_bitrate_bps,
                          bc_config.max_bitrate_bps), remb)
  IN /\ overusing' = UpdatedOverusing
     /\ current_bitrate' = new_bitrate
     /\ notified' = IF new_bitrate # current_bitrate /\ callback
                    THEN <<new_bitrate>> ELSE <<>>

set_callback(cb) ==
  /\ callback' = cb
  /\ notified' = <<>>
  /\ lastOp' = Op("set_callback", "", "", 0, 0, 0, cb)
  /\ UNCHANGED <<bc_config, current_bitrate, target_bitrate, current_loss,
                 overusing, since_update, bcCalls, notBc>>

on_remb(bitrate_bps) ==
  /\ target_bitrate' = bitrate_bps
  /\ update_bitrate(bitrate_bps)
  /\ bcCalls' = bcCalls + 1
  /\ lastOp' = Op("on_remb", "", "", 0, bitrate_bps, 0, FALSE)
  /\ UNCHANGED <<bc_config, callback, current_loss, since_update, notBc>>

on_packet_loss(loss_rate) ==
  /\ current_loss' = loss_rate
  /\ notified' = <<>>
  /\ bcCalls' = bcCalls + 1
  /\ lastOp' = Op("on_packet_loss", "", "", 0, loss_rate, 0, FALSE)
  /\ UNCHANGED <<bc_config, callback, current_bitrate, target_bitrate,
                 overusing, since_update, notBc>>

BitrateController_process ==
  /\ IF since_update >= UpdateIntervalMs
     THEN /\ update_bitrate(target_bitrate)
          /\ since_update' = 0
     ELSE /\ notified' = <<>>
          /\ UNCHANGED <<current_bitrate, overusing, since_update>>
  /\ bcCalls' = bcCalls + 1
  /\ lastOp' = Op("BitrateController_process", "", "", 0, 0, 0,
                  since_update >= UpdateIntervalMs)
  /\ UNCHANGED <<bc_config, callback, target_bitrate, current_loss, notBc>>

set_bitrate(bitrate_bps) ==
  /\ current_bitrate' = Clamp(bitrate_bps, bc_config.min_bitrate_bps,
                              bc_config.max_bitrate_bps)
  /\ notified' = <<>>
  /\ bcCalls' = bcCalls + 1
  /\ lastOp' = Op("set_bitrate", "", "", 0, bitrate_bps, 0, FALSE)
  /\ UNCHANGED <<bc_config, callback, target_bitrate, current_loss,
                 overusing, since_update, notBc>>

\* steady_clock advances by one update interval.
BcTick ==
  /\ since_update < UpdateIntervalMs
  /\ since_update' = UpdateIntervalMs
  /\ notified' = <<>>
  /\ lastOp' = Op("BcTick", "", "", 0, 0, 0, FALSE)
  /\ UNCHANGED <<bc_config, callback, current_bitrate, target_bitrate,
                 current_loss, overusing, bcCalls, notBc>>

(* Inputs of the bitrate-controller specification *)

MaxBcCalls == 4

BcConfigs == { BitrateControllerConfig(1000, 100, 5000),
               BitrateControllerConfig(4900, 100, 5000) }
Rembs == { 50, 2000, 9000 }
LossRates == { 0, 10, 50 }
Bitrates == { 50, 3000, 9000 }

NextBc ==
  \/ \E cb \in BOOLEAN : set_callback(cb)
  \/ \E bps \in Rembs : bcCalls < MaxBcCalls /\ on_remb(bps)
  \/ \E loss \in LossRates : bcCalls < MaxBcCalls /\ on_packet_loss(loss)
  \/ bcCalls < MaxBcCalls /\ BitrateController_process
  \/ \E bps \in Bitrates : bcCalls < MaxBcCalls /\ set_bitrate(bps)
  \/ BcTick

-----------------------------------------------------------------------------
(* IceAgent   src/core/src/ice_agent.cpp, src/unnamed/part_004 *)

\* Unsigned integers wider than the model's integers are kept as sequences
\* of 16-bit digits, most significant first: a uint32_t has two digits, a
\* uint64_t four.  Sequences of equal length compare digit by digit.
Half == 65536

RECURSIVE Less(_, _)
Less(a, b) ==
  /\ a # <<>>
  /\ \/ Head(a) < Head(b)
     \/ Head(a) = Head(b) /\ Less(Tail(a), Tail(b))

\* the switch of calculate_priority
TypePreference(type) ==
  CASE type = "HOST" -> 126
    [] type = "PEER_REFLEXIVE" -> 110
    [] type = "SERVER_REFLEXIVE" -> 100
    [] type = "RELAY" -> 0

\* (type_pref << 24) + (local_preference << 8) + (256 - component) in
\* uint32_t arithmetic, for arguments below 2^31.
calculate_priority(type, local_preference, component) ==
  LET low == (local_preference % 256) * 256 + (256 - component)
      high == TypePreference(type) * 256 + (local_preference \div 256)
                + (low \div Half)
  IN <<high % Half, low % Half>>

IceCandidate(component, priority, address, type) ==
  [ component |-> component, priority |-> priority, address |-> address,
    type |-> type ]

\* add_remote_candidate: (uint64_t(a) << 32) + b, a and b being uint32_t
ShiftedPlus(a, b) == a \o b

\* add_remote_candidate: the priority given to a pair
PairPriority(role, local, candidate) ==
  IF role = "CONTROLLING"
  THEN ShiftedPlus(local.priority, candidate.priority)
  ELSE ShiftedPlus(candidate.priority, local.priority)

IceCandidatePair(role, local, candidate) ==
  [ local |-> local, remote |-> candidate,
    priority |-> PairPriority(role, local, candidate), state |-> "FROZEN" ]

IceAgentConfig(role, gather_host_candidates) ==
  [ role |-> role, gather_host_candidates |-> gather_host_candidates ]

\* IceAgentCallbacks with every callback set, or none.
IceAgentCallbacks(set) ==
  [ on_candidate |-> set, on_gathering_state_change |-> set,
    on_connection_state_change |-> set, on_data |-> set ]

IceStats == [ candidates_gathered |-> 0, connectivity_checks_received |-> 0 ]

IceCall(cb, arg) == [ callback |-> cb, arg |-> arg ]

\* IceAgent::Impl::Impl: UdpSocket::create() may fail.
InitIce ==
  /\ callbacks = IceAgentCallbacks(FALSE)
  /\ socket \in {"none", "open"}
  /\ local_candidates = <<>>
  /\ remote_candidates = <<>>
  /\ candidate_pairs = <<>>
  /\ connection_state = "NEW"
  /\ gathering_state = "NEW"
  /\ ice_stats = IceStats
  /\ iceOut = <<>>
  /\ iceCalls = 0
  /\ priorityLog = {}

set_callbacks(cbs) ==
  /\ callbacks' = cbs
  /\ iceOut' = <<>>
  /\ lastOp' = Op("set_callbacks", "", "", 0, 0, 0, cbs.on_data)
  /\ UNCHANGED <<ice_config, socket, local_candidates, remote_candidates,
                 candidate_pairs, connection_state, gathering_state,
                 ice_stats, iceCalls, priorityLog, notIce>>

gather_candidates ==
  LET gathers == ice_config.gather_host_candidates /\ socket # "none"
      host == IceCandidate(1, calculate_priority("HOST", 65535, 1),
                           "local", "HOST")
  IN /\ gathering_state' = "COMPLETE"
     /\ local_candidates' = IF gathers THEN Append(local_candidates, host)
                            ELSE local_candidates
     /\ ice_stats' = IF gathers
                     THEN [ice_stats EXCEPT !.candidates_gathered = @ + 1]
                     ELSE ice_stats
     /\ iceOut' =
          (IF callbacks.on_gathering_state_change
           THEN <<IceCall("on_gathering_state_change", "GATHERING")>>
           ELSE <<>>)
          \o (IF gathers /\ callbacks.on_candidate
              THEN <<IceCall("on_candidate", host)>> ELSE <<>>)
          \o (IF callbacks.on_gathering_state_change
              THEN <<IceCall("on_gathering_state_change", "COMPLETE")>>
              ELSE <<>>)
     /\ iceCalls' = iceCalls + 1
     /\ lastOp' = Op("gather_candidates", "", "", 0, 0, 0, gathers)
     /\ UNCHANGED <<ice_config, callbacks, socket, remote_candidates,
                    candidate_pairs, connection_state, priorityLog, notIce>>

add_remote_candidate(candidate) ==
  /\ remote_candidates' = Append(remote_candidates, candidate)
  /\ candidate_pairs' =
       candidate_pairs \o
         [i \in 1..Len(local_candidates) |->
            IceCandidatePair(ice_config.role, local_candidates[i], candidate)]
  /\ iceOut' = <<>>
  /\ iceCalls' = iceCalls + 1
  /\ lastOp' = Op("add_remote_candidate", "", "", 0, candidate.component, 0,
                  FALSE)
  /\ UNCHANGED <<ice_config, callbacks, socket, local_candidates,
                 connection_state, gathering_state, ice_stats, priorityLog,
                 notIce>>

set_remote_candidates_complete ==
  /\ connection_state' = "CHECKING"
  /\ iceOut' = IF callbacks.on_connection_state_change
               THEN <<IceCall("on_connection_state_change", "CHECKING")>>
               ELSE <<>>
  /\ iceCalls' = iceCalls + 1
  /\ lastOp' = Op("set_remote_candidates_complete", "", "", 0, 0, 0, FALSE)
  /\ UNCHANGED <<ice_config, callbacks, socket, local_candidates,
                 remote_candidates, candidate_pairs, gathering_state,
                 ice_stats, priorityLog, notIce>>

\* send: selected_pair is never set, so the first test always returns false.
send(data) ==
  /\ iceOut' = <<>>
  /\ iceCalls' = iceCalls + 1
  /\ lastOp' = Op("send", "", "", 0, 0, 0, FALSE)
  /\ UNCHANGED <<ice_config, callbacks, socket, local_candidates,
                 remote_candidates, candidate_pairs, connection_state,
                 gathering_state, ice_stats, priorityLog, notIce>>

\* process_packet: data.size() >= 20 && (data[0] & 0xC0) == 0x00
TreatedAsStun(data) == Len(data) >= 20 /\ data[1] \div 64 = 0

process_packet(data, source) ==
  /\ IF TreatedAsStun(data)
     THEN /\ ice_stats' = [ice_stats EXCEPT
                             !.connectivity_checks_received = @ + 1]
          /\ iceOut' = <<>>
     ELSE /\ iceOut' = IF callbacks.on_data
                       THEN <<IceCall("on_data", <<data, source>>)>>
                       ELSE <<>>
          /\ UNCHANGED ice_stats
  /\ iceCalls' = iceCalls + 1
  /\ lastOp' = Op("process_packet", "", "", 0, 0, 0, TRUE)
  /\ UNCHANGED <<ice_config, callbacks, socket, local_candidates,
                 remote_candidates, candidate_pairs, connection_state,
                 gathering_state, priorityLog, notIce>>

\* process: empty
IceAgent_process ==
  /\ iceOut' = <<>>
  /\ iceCalls' = iceCalls + 1
  /\ lastOp' = Op("IceAgent_process", "", "", 0, 0, 0, FALSE)
  /\ UNCHANGED <<ice_config, callbacks, socket, local_candidates,
                 remote_candidates, candidate_pairs, connection_state,
                 gathering_state, ice_stats, priorityLog, notIce>>

close ==
  /\ connection_state' = "CLOSED"
  /\ iceOut' = IF callbacks.on_connection_state_change
               THEN <<IceCall("on_connection_state_change", "CLOSED")>>
               ELSE <<>>
  /\ socket' = IF socket = "none" THEN "none" ELSE "closed"
  /\ iceCalls' = iceCalls + 1
  /\ lastOp' = Op("close", "", "", 0, 0, 0, FALSE)
  /\ UNCHANGED <<ice_config, callbacks, local_candidates, remote_candidates,
                 candidate_pairs, gathering_state, ice_stats, priorityLog,
                 notIce>>

\* A caller evaluates the static IceCandidate::calculate_priority.
PriorityCall(type, local_preference, component) ==
  [ type |-> type, local_preference |-> local_preference,
    component |-> component,
    priority |-> calculate_priority(type, local_preference, component) ]

calculate_priority_call(type, local_preference, component) ==
  /\ priorityLog' = priorityLog
                      \cup {PriorityCall(type, local_preference, component)}
  /\ lastOp' = Op("calculate_priority", "", "", 0, component, 0, FALSE)
  /\ UNCHANGED <<ice_config, callbacks, socket, local_candidates,
                 remote_candidates, candidate_pairs, connection_state,
                 gathering_state, ice_stats, iceOut, iceCalls, notIce>>

(* Inputs of the ICE specifications *)

MaxIceCalls == 4
MaxPriorityCalls == 2

MagicCookie == <<33, 18, 164, 66>>

\* A packet of the given length and first byte whose bytes 4..7 are the
\* magic cookie, or zeros.
IcePacket(length, first, cookie) ==
  [i \in 1..length |->
     IF i = 1 THEN first
     ELSE IF i \in 5..8 /\ cookie THEN MagicCookie[i - 4]
     ELSE 0]

IcePackets == { IcePacket(20, 0, TRUE), IcePacket(20, 1, FALSE),
                IcePacket(20, 128, TRUE), IcePacket(19, 0, TRUE),
                IcePacket(24, 64, TRUE) }

IceConfigs == { IceAgentConfig(role, TRUE) :
                  role \in {"CONTROLLING", "CONTROLLED"} }
                \cup { IceAgentConfig("CONTROLLING", FALSE) }

RemoteCandidates ==
  { IceCandidate(1, calculate_priority("HOST", 65535, 1), "r1", "HOST"),
    IceCandidate(1, calculate_priority("RELAY", 100, 1), "r2", "RELAY"),
    IceCandidate(2, calculate_priority("HOST", 65535, 2), "r3", "HOST"),
    IceCandidate(1, <<65535, 65535>>, "r4", "PEER_REFLEXIVE") }

NextIce ==
  \/ \E set \in BOOLEAN : set_callbacks(IceAgentCallbacks(set))
  \/ iceCalls < MaxIceCalls /\ gather_candidates
  \/ \E candidate \in RemoteCandidates :
       iceCalls < MaxIceCalls /\ add_remote_candidate(candidate)
  \/ iceCalls < MaxIceCalls /\ set_remote_candidates_complete
  \/ iceCalls < MaxIceCalls /\ send(<<1>>)
  \/ \E data \in IcePackets :
       iceCalls < MaxIceCalls /\ process_packet(data, "peer")
  \/ iceCalls < MaxIceCalls /\ IceAgent_process
  \/ iceCalls < MaxIceCalls /\ close

IceTypes == { "HOST", "PEER_REFLEXIVE", "SERVER_REFLEXIVE", "RELAY" }
LocalPreferences == { 0, 65535, 65536, 6619136 }
Components == { 1, 2, 256, 257 }

NextIcePriority ==
  \E type \in IceTypes, pref \in LocalPreferences, component \in Components :
    /\ Cardinality(priorityLog) < MaxPriorityCalls
    /\ calculate_priority_call(type, pref, component)

-----------------------------------------------------------------------------
(* RtpPacket   src/core/src/rtp_packet.cpp, src/unnamed/part_005 *)

\* RtpHeader::MIN_SIZE
MIN_SIZE == 12

\* A uint32_t is kept as <<high 16 bits, low 16 bits>>.
RtpHeader(padding, extension, csrc, marker, payload_type, sequence,
          timestamp, ssrc) ==
  [ version |-> 2, padding |-> padding, extension |-> extension,
    csrc_count |-> Len(csrc), marker |-> marker,
    payload_type |-> payload_type, sequence |-> sequence,
    timestamp |-> timestamp, ssrc |-> ssrc, csrc |-> csrc ]

RtpExtension(profile, data) == [ profile |-> profile, data |-> data ]

\* RtpPacket: header_, extension_ (<<>> when empty) and payload_.
RtpPacketOf(header, extension, payload) ==
  [ header |-> header, extension |-> extension, payload |-> payload ]

\* read_uint16_be and read_uint32_be at position offset (counted from 0)
read_uint16_be(data, offset) == data[offset + 1] * 256 + data[offset + 2]
read_uint32_be(data, offset) ==
  <<read_uint16_be(data, offset), read_uint16_be(data, offset + 2)>>

\* the bytes pushed for a uint16_t and for a uint32_t
Bytes16(value) == <<(value \div 256) % 256, value % 256>>
Bytes32(value) == Bytes16(value[1]) \o Bytes16(value[2])

\* data.begin() + from up to data.begin() + to
Slice(data, from, to) == SubSeq(data, from + 1, to)

\* parse, from the extension header on.
ParseTail(data, header, offset) ==
  LET has_ext == header.extension
      ext_length == IF has_ext /\ Len(data) >= offset + 4
                    THEN (read_uint16_be(data, offset + 2) * 4) % 65536
                    ELSE 0
      start == IF has_ext THEN offset + 4 + ext_length ELSE offset
      payload_size == Len(data) - start
      padding_length == data[Len(data)]
      kept == IF header.padding /\ payload_size > 0
                 /\ padding_length <= payload_size
              THEN payload_size - padding_length ELSE payload_size
  IN IF has_ext /\ Len(data) < offset + 4 THEN <<>>
     ELSE IF has_ext /\ Len(data) < offset + 4 + ext_length THEN <<>>
     ELSE << RtpPacketOf(
               header,
               IF has_ext
               THEN <<RtpExtension(read_uint16_be(data, offset),
                                   Slice(data, offset + 4,
                                         offset + 4 + ext_length))>>
               ELSE <<>>,
               IF start < Len(data) THEN Slice(data, start, start + kept)
               ELSE <<>>) >>

\* RtpPacket::parse: <<>> for std::nullopt, else the packet.
parse(data) ==
  IF Len(data) < MIN_SIZE THEN <<>>
  ELSE IF data[1] \div 64 # 2 THEN <<>>
  ELSE LET csrc_count == data[1] % 16
           csrc_size == csrc_count * 4
           header ==
             [ version |-> data[1] \div 64,
               padding |-> (data[1] \div 32) % 2 = 1,
               extension |-> (data[1] \div 16) % 2 = 1,
               csrc_count |-> csrc_count,
               marker |-> data[2] \div 128 = 1,
               payload_type |-> data[2] % 128,
               sequence |-> read_uint16_be(data, 2),
               timestamp |-> read_uint32_be(data, 4),
               ssrc |-> read_uint32_be(data, 8),
               csrc |-> [i \in 1..csrc_count |->
                           read_uint32_be(data, MIN_SIZE + (i - 1) * 4)] ]
       IN IF Len(data) < MIN_SIZE + csrc_size THEN <<>>
          ELSE ParseTail(data, header, MIN_SIZE + csrc_size)

RECURSIVE CsrcBytes(_)
CsrcBytes(csrc) ==
  IF csrc = <<>> THEN <<>> ELSE Bytes32(Head(csrc)) \o CsrcBytes(Tail(csrc))

\* serialize: the extension header, its data and the padding to a multiple
\* of four bytes.
ExtensionBytes(extension) ==
  IF extension = <<>> THEN <<>>
  ELSE LET ext == extension[1]
       IN Bytes16(ext.profile)
            \o Bytes16(((Len(ext.data) + 3) \div 4) % 65536)
            \o ext.data
            \o [i \in 1..((4 - (Len(ext.data) % 4)) % 4) |-> 0]

\* serialize: header_.padding ? 0x20 : 0
PaddingBit(padding) == IF padding THEN 32 ELSE 0

\* RtpPacket::serialize
serialize(packet) ==
  LET header == packet.header
  IN << (header.version % 4) * 64 + PaddingBit(header.padding)
          + (IF packet.extension # <<>> THEN 16 ELSE 0)
          + (header.csrc_count % 16),
        (IF header.marker THEN 128 ELSE 0) + (header.payload_type % 128) >>
       \o Bytes16(header.sequence)
       \o Bytes32(header.timestamp)
       \o Bytes32(header.ssrc)
       \o CsrcBytes(header.csrc)
       \o ExtensionBytes(packet.extension)
       \o packet.payload

NotParsed == [ called |-> FALSE, value |-> <<>> ]
Parsed(data) == [ called |-> TRUE, value |-> parse(data) ]

InitRtp ==
  /\ rtp_packet = <<>>
  /\ rtp_wire = <<>>
  /\ rtp_parsed = NotParsed

\* A caller serializes a packet it has built.
serialize_call(packet) ==
  /\ rtp_packet' = <<packet>>
  /\ rtp_wire' = serialize(packet)
  /\ rtp_parsed' = NotParsed
  /\ lastOp' = Op("serialize", "", "", 0, 0, Len(rtp_wire'), FALSE)
  /\ UNCHANGED notRtp

\* A caller parses the bytes it has just serialized.
parse_call ==
  /\ rtp_packet # <<>>
  /\ ~rtp_parsed.called
  /\ rtp_parsed' = Parsed(rtp_wire)
  /\ lastOp' = Op("parse", "", "", 0, 0, Len(rtp_wire),
                  rtp_parsed'.value # <<>>)
  /\ UNCHANGED <<rtp_packet, rtp_wire, notRtp>>

\* A caller parses bytes received from the network.
parse_received(data) ==
  /\ rtp_packet' = <<>>
  /\ rtp_wire' = data
  /\ rtp_parsed' = Parsed(data)
  /\ lastOp' = Op("parse", "", "", 0, 1, Len(data), rtp_parsed'.value # <<>>)
  /\ UNCHANGED notRtp

(* Inputs of the RTP packet specification *)

RtpCsrcs == { <<>>, << <<1, 2>> >>, << <<65535, 65535>>, <<0, 7>> >> }
RtpExtensions == { <<>>, <<RtpExtension(48862, <<>>)>>,
                   <<RtpExtension(48862, <<1, 2, 3, 4>>)>>,
                   <<RtpExtension(4096, <<9>>)>> }
RtpPayloads == { <<>>, <<7, 1>>, <<5, 0>>, <<9, 200>> }

RtpPackets ==
  { RtpPacketOf(RtpHeader(padding, extension # <<>>, csrc, marker, 111,
                          65535, <<40000, 3>>, <<4660, 22136>>),
                extension, payload) :
      padding \in BOOLEAN, marker \in BOOLEAN, csrc \in RtpCsrcs,
      extension \in RtpExtensions, payload \in RtpPayloads }

\* Received datagrams: too short, wrong version, a CSRC count and an
\* extension length that exceed the datagram, and a padded packet.
RtpDatagrams ==
  { <<128, 0, 0, 1>>,
    <<64, 0, 0, 1, 0, 0, 0, 2, 0, 0, 0, 3>>,
    <<130, 0, 0, 1, 0, 0, 0, 2, 0, 0, 0, 3, 0, 0, 0, 4>>,
    <<144, 0, 0, 1, 0, 0, 0, 2, 0, 0, 0, 3, 190, 222, 0, 1>>,
    <<160, 96, 0, 1, 0, 0, 0, 2, 0, 0, 0, 3, 8, 9, 0, 2>> }

NextRtp ==
  \/ \E packet \in RtpPackets : serialize_call(packet)
  \/ parse_call
  \/ \E data \in RtpDatagrams : parse_received(data)

-----------------------------------------------------------------------------
(* ClusterCoordinator *)

\* ClusterConfig: the fields the coordinator's methods read.
ClusterConfig(node_id) == [node_id |-> node_id]

\* ClusterNode: the fields the coordinator's methods read or write.  Loads
\* are whole percents.
ClusterNode(id, status, load_percent) ==
  [id |-> id, status |-> status, load_percent |-> load_percent]

RoomLocation(room_id, primary_node) ==
  [room_id |-> room_id, primary_node |-> primary_node]

\* One call of event_callback, as emit_event makes it.
ClusterCall(event, node_id, details) ==
  [event |-> event, node_id |-> node_id, details |-> details]

\* The calling thread: the method it is in ("" when in none), where it is
\* ("idle" before any call, "locked" inside the method with the mutex
\* owned through the method's lock_guard, "blocked" inside mutex::lock,
\* "returned" and "system_error" after the call has ended), the method's
\* argument and the value it returned.
Call(op, at, arg, value) == [op |-> op, at |-> at, arg |-> arg, value |-> value]

Caller == "caller"

\* Impl::Impl and ClusterCoordinator::ClusterCoordinator.
InitCluster ==
  /\ cluster_mutex = "none"
  /\ nodes = << >>
  /\ rooms = << >>
  /\ event_callback = FALSE
  /\ leader_id = ""
  /\ running = FALSE
  /\ heartbeat_thread = FALSE
  /\ self_node = ClusterNode(cluster_config.node_id, "OFFLINE", 0)
  /\ cluster_call = Call("", "idle", "", "")
  /\ clusterOut = << >>
  /\ clusterCalls = 0

\* emit_event: the calls made to the callback, none when it is empty.
emit_event(event, node_id, details) ==
  IF event_callback THEN <<ClusterCall(event, node_id, details)>> ELSE << >>

\* std::lock_guard on Impl::mutex, a std::mutex, constructed by a thread:
\* the mutex is acquired when no thread owns it and the thread waits while
\* another owns it.  When the thread itself owns it the behaviour is
\* undefined: the lock never returns, or the implementation detects the
\* deadlock and throws std::system_error.
lock_guard(owner, thread) ==
  IF owner = "none" THEN {"acquired"}
  ELSE IF owner = thread THEN {"blocked", "system_error"}
  ELSE {"waiting"}

\* Order of std::string's operator< on the node ids of the model.
NodeNames == <<"", "n1", "n2">>
Rank(id) == CHOOSE i \in 1..Len(NodeNames) : NodeNames[i] = id
ActiveNodes(ns) == { id \in DOMAIN ns : ns[id].status = "ACTIVE" }

\* Impl::elect_leader once it owns the mutex: the smallest id among the
\* ACTIVE nodes, this node's id when there is none.
ElectedLeader(ns, node_id) ==
  IF ActiveNodes(ns) = {} THEN node_id
  ELSE CHOOSE id \in ActiveNodes(ns) :
         \A other \in ActiveNodes(ns) : Rank(id) <= Rank(other)

\* get_least_loaded_node once it owns the mutex: an ACTIVE node whose load
\* is below 100 and not above that of any other (the first such in the
\* iteration order of the unordered_map), this node's id if there is none
\* or its id is empty.
LeastLoaded(ns, node_id) ==
  LET eligible == { id \in ActiveNodes(ns) : ns[id].load_percent < 100 }
      best == { id \in eligible :
                  \A other \in eligible :
                    ns[id].load_percent <= ns[other].load_percent }
  IN  IF eligible = {} THEN {node_id}
      ELSE { IF id = "" THEN node_id ELSE id : id \in best }

\* nodes[key] = value, with std::unordered_map::operator[].
Assigned(ns, key, value) ==
  [id \in DOMAIN ns \cup {key} |-> IF id = key THEN value ELSE ns[id]]

\* nodes.erase(key).
Erased(ns, key) == [id \in DOMAIN ns \ {key} |-> ns[id]]

MaxClusterCalls == 4

\* A public method is entered by the calling thread when it is in no call.
Callable ==
  /\ cluster_call.at \in {"idle", "returned", "system_error"}
  /\ clusterCalls < MaxClusterCalls

\* A method that holds one lock_guard for its whole body runs as one step
\* once the mutex is free.
Guarded == Callable /\ "acquired" \in lock_guard(cluster_mutex, Caller)

\* The end of a call that returns value.
Returns(op, arg, value) ==
  /\ cluster_call' = Call(op, "returned", arg, value)
  /\ clusterCalls' = clusterCalls + 1
  /\ lastOp' = Op(op, "", arg, 0, 0, clusterCalls, TRUE)

\* A nested lock_guard on the mutex the thread owns: the thread stays in
\* mutex::lock with the mutex owned, or std::system_error leaves the method
\* and the method's own lock_guard releases the mutex on the way out.
Relocked(outcome) ==
  /\ outcome \in {"blocked", "system_error"}
  /\ cluster_call' = [cluster_call EXCEPT !.at = outcome]
  /\ cluster_mutex' = IF outcome = "blocked" THEN cluster_mutex ELSE "none"
  /\ clusterOut' = << >>
  /\ lastOp' = Op(cluster_call.op, "", cluster_call.arg, 0, 0, clusterCalls,
                  FALSE)

\* join(), up to its call of elect_leader(): nothing when already running;
\* otherwise this node becomes ACTIVE, the mutex is locked and the node is
\* entered in the node table.
join ==
  /\ Callable
  /\ clusterOut' = << >>
  /\ IF running
       THEN /\ Returns("join", "", "false")
            /\ UNCHANGED <<cluster_mutex, nodes, self_node>>
       ELSE /\ "acquired" \in lock_guard(cluster_mutex, Caller)
            /\ self_node' = [self_node EXCEPT !.status = "ACTIVE"]
            /\ cluster_mutex' = Caller
            /\ nodes' = Assigned(nodes, cluster_config.node_id, self_node')
            /\ cluster_call' = Call("join", "locked", "", "")
            /\ clusterCalls' = clusterCalls + 1
            /\ lastOp' = Op("join", "", "", 0, 0, clusterCalls, FALSE)
  /\ UNCHANGED <<cluster_config, rooms, event_callback, leader_id, running,
                 heartbeat_thread, notCluster>>

\* join() from its call of elect_leader(), which locks the mutex again: on
\* success the leader is stored, the mutex released, the heartbeat thread
\* started and NODE_JOINED emitted.
join_elect_leader ==
  /\ cluster_call = Call("join", "locked", "", "")
  /\ \E outcome \in lock_guard(cluster_mutex, Caller) :
       IF outcome = "acquired"
         THEN /\ leader_id' = ElectedLeader(nodes, cluster_config.node_id)
              /\ cluster_mutex' = "none"
              /\ running' = TRUE
              /\ heartbeat_thread' = TRUE
              /\ clusterOut' = emit_event("NODE_JOINED",
                                          cluster_config.node_id, "")
              /\ cluster_call' = Call("join", "returned", "", "true")
              /\ lastOp' = Op("join", "", "", 0, 0, clusterCalls, TRUE)
         ELSE /\ Relocked(outcome)
              /\ UNCHANGED <<leader_id, running, heartbeat_thread>>
  /\ UNCHANGED <<cluster_config, nodes, rooms, event_callback, self_node,
                 clusterCalls, notCluster>>

\* leave(): nothing unless running; otherwise this node is LEAVING, NODE_LEFT
\* is emitted, the heartbeat thread is stopped and joined, and the node
\* leaves the node table.
leave ==
  /\ Guarded
  /\ Returns("leave", "", "")
  /\ IF running
       THEN /\ self_node' = [self_node EXCEPT !.status = "LEAVING"]
            /\ clusterOut' = emit_event("NODE_LEFT", cluster_config.node_id,
                                        "")
            /\ running' = FALSE
            /\ heartbeat_thread' = FALSE
            /\ nodes' = Erased(nodes, cluster_config.node_id)
       ELSE /\ clusterOut' = << >>
            /\ UNCHANGED <<self_node, running, heartbeat_thread, nodes>>
  /\ UNCHANGED <<cluster_config, cluster_mutex, rooms, event_callback,
                 leader_id, notCluster>>

set_event_callback(set) ==
  /\ Guarded
  /\ event_callback' = set
  /\ clusterOut' = << >>
  /\ Returns("set_event_callback", "", "")
  /\ UNCHANGED <<cluster_config, cluster_mutex, nodes, rooms, leader_id,
                 running, heartbeat_thread, self_node, notCluster>>

\* A const method that returns value under the lock.
Reads(op, arg, value) ==
  /\ Guarded
  /\ clusterOut' = << >>
  /\ Returns(op, arg, value)
  /\ UNCHANGED <<cluster_config, cluster_mutex, nodes, rooms, event_callback,
                 leader_id, running, heartbeat_thread, self_node, notCluster>>

get_nodes == Reads("get_nodes", "", { nodes[id] : id \in DOMAIN nodes })
get_self == Reads("get_self", "", self_node)
get_leader == Reads("get_leader", "", leader_id)
is_leader == Reads("is_leader", "", leader_id = cluster_config.node_id)

\* find_room: the stored location, an empty RoomLocation for an unknown room.
find_room(room_id) ==
  Reads("find_room", room_id,
        IF room_id \in DOMAIN rooms THEN rooms[room_id]
        ELSE RoomLocation("", ""))

report_room_stats(room_id) == Reads("report_room_stats", room_id, "")

\* get_least_loaded_node called from outside, as LoadBalancer does.
get_least_loaded_node ==
  \E best \in LeastLoaded(nodes, cluster_config.node_id) :
    Reads("get_least_loaded_node", "", best)

\* update_load: the load of self_node and of this node's entry in the node
\* table, which operator[] creates when it is missing.
update_load(load_percent) ==
  /\ Guarded
  /\ self_node' = [self_node EXCEPT !.load_percent = load_percent]
  /\ nodes' =
       LET id == cluster_config.node_id
           node == IF id \in DOMAIN nodes THEN nodes[id]
                   ELSE ClusterNode("", "OFFLINE", 0)
       IN  Assigned(nodes, id, [node EXCEPT !.load_percent = load_percent])
  /\ clusterOut' = << >>
  /\ Returns("update_load", "", "")
  /\ UNCHANGED <<cluster_config, cluster_mutex, rooms, event_callback,
                 leader_id, running, heartbeat_thread, notCluster>>

\* create_room(room_id), up to its call of get_least_loaded_node(): the
\* mutex is locked.
create_room(room_id) ==
  /\ Guarded
  /\ cluster_mutex' = Caller
  /\ cluster_call' = Call("create_room", "locked", room_id, "")
  /\ clusterCalls' = clusterCalls + 1
  /\ clusterOut' = << >>
  /\ lastOp' = Op("create_room", "", room_id, 0, 0, clusterCalls, FALSE)
  /\ UNCHANGED <<cluster_config, nodes, rooms, event_callback, leader_id,
                 running, heartbeat_thread, self_node, notCluster>>

\* create_room from its call of get_least_loaded_node(), which locks the
\* mutex again: on success the room is placed on the best node and
\* ROOM_CREATED is emitted.
create_room_get_least_loaded_node ==
  /\ cluster_call.op = "create_room" /\ cluster_call.at = "locked"
  /\ \E outcome \in lock_guard(cluster_mutex, Caller) :
       IF outcome = "acquired"
         THEN \E best_node \in LeastLoaded(nodes, cluster_config.node_id) :
                /\ rooms' = Assigned(rooms, cluster_call.arg,
                                     RoomLocation(cluster_call.arg,
                                                  best_node))
                /\ clusterOut' = emit_event("ROOM_CREATED", best_node,
                                            cluster_call.arg)
                /\ cluster_mutex' = "none"
                /\ cluster_call' = Call("create_room", "returned",
                                        cluster_call.arg, best_node)
                /\ lastOp' = Op("create_room", "", cluster_call.arg, 0, 0,
                                clusterCalls, TRUE)
         ELSE Relocked(outcome) /\ UNCHANGED rooms
  /\ UNCHANGED <<cluster_config, nodes, event_callback, leader_id, running,
                 heartbeat_thread, self_node, clusterCalls, notCluster>>

\* trigger_election(), up to its call of elect_leader(): the mutex is locked.
trigger_election ==
  /\ Guarded
  /\ cluster_mutex' = Caller
  /\ cluster_call' = Call("trigger_election", "locked", "", "")
  /\ clusterCalls' = clusterCalls + 1
  /\ clusterOut' = << >>
  /\ lastOp' = Op("trigger_election", "", "", 0, 0, clusterCalls, FALSE)
  /\ UNCHANGED <<cluster_config, nodes, rooms, event_callback, leader_id,
                 running, heartbeat_thread, self_node, notCluster>>

\* trigger_election from its call of elect_leader(), which locks the mutex
\* again: on success a changed leader is stored and LEADER_CHANGED emitted.
trigger_election_elect_leader ==
  /\ cluster_call = Call("trigger_election", "locked", "", "")
  /\ \E outcome \in lock_guard(cluster_mutex, Caller) :
       IF outcome = "acquired"
         THEN LET new_leader == ElectedLeader(nodes, cluster_config.node_id)
              IN  /\ leader_id' = new_leader
                  /\ clusterOut' =
                       IF new_leader # leader_id
                         THEN emit_event("LEADER_CHANGED", new_leader, "")
                         ELSE << >>
                  /\ cluster_mutex' = "none"
                  /\ cluster_call' = Call("trigger_election", "returned", "",
                                          "")
                  /\ lastOp' = Op("trigger_election", "", "", 0, 0,
                                  clusterCalls, TRUE)
         ELSE Relocked(outcome) /\ UNCHANGED leader_id
  /\ UNCHANGED <<cluster_config, nodes, rooms, event_callback, running,
                 heartbeat_thread, self_node, clusterCalls, notCluster>>

(* Inputs of the cluster coordinator specification *)

ClusterConfigs == { ClusterConfig("n1"), ClusterConfig("n2") }
ClusterRooms == {"r1", "r2"}
ClusterLoads == {50, 100}

NextCluster ==
  \/ join
  \/ join_elect_leader
  \/ leave
  \/ \E set \in BOOLEAN : set_event_callback(set)
  \/ get_nodes
  \/ get_self
  \/ get_leader
  \/ is_leader
  \/ \E room_id \in ClusterRooms : find_room(room_id)
  \/ \E room_id \in ClusterRooms : report_room_stats(room_id)
  \/ get_least_loaded_node
  \/ \E load_percent \in ClusterLoads : update_load(load_percent)
  \/ \E room_id \in ClusterRooms : create_room(room_id)
  \/ create_room_get_least_loaded_node
  \/ trigger_election
  \/ trigger_election_elect_leader

\* The steps of the calling thread inside a method it has entered.
ClusterRuns ==
  \/ join_elect_leader
  \/ create_room_get_least_loaded_node
  \/ trigger_election_elect_leader

-----------------------------------------------------------------------------
(* SpscQueue   src/core/include/rtc/metrics_exporter.h (lock_free_queue.h) *)

\* A thread's position and locals: the item it pushes or has read, and the
\* index it loaded from its own end of the queue.
SpscThread(pc, item, index) == [pc |-> pc, item |-> item, index |-> index]

\* SpscQueue(capacity): capacity + 1 value-initialised slots, both indices 0.
InitSpsc ==
  /\ buffer_ = [i \in 0..(capacity_ - 1) |-> 0]
  /\ head_ = 0
  /\ tail_ = 0
  /\ producer = SpscThread("idle", 0, 0)
  /\ consumer = SpscThread("idle", 0, 0)
  /\ spscPushed = <<>>
  /\ spscPopped = <<>>
  /\ spscCalls = 0

\* (index + 1) % capacity_
NextIndex(index) == (index + 1) % capacity_

\* Faulty variant of SpscFull: the queue is never found full.
SpscFull_Never(next_tail, head) == FALSE

\* push: next_tail == head_.load(acquire)
SpscFull(next_tail, head) == next_tail = head

\* pop: current_head == tail_.load(acquire)
SpscEmpty(current_head, tail) == current_head = tail

\* push, up to its test: the producer loads tail_ and head_ and returns
\* false when the queue is full.
spsc_push(item) ==
  /\ producer.pc = "idle"
  /\ spscCalls' = spscCalls + 1
  /\ IF SpscFull(NextIndex(tail_), head_)
       THEN /\ producer' = SpscThread("idle", item, tail_)
            /\ lastOp' = Op("spsc_push", "", "", 0, item, 0, FALSE)
       ELSE /\ producer' = SpscThread("store", item, tail_)
            /\ lastOp' = Op("spsc_push", "", "", 0, item, 1, FALSE)
  /\ UNCHANGED <<capacity_, buffer_, head_, tail_, consumer, spscPushed,
                 spscPopped, notSpsc>>

\* push: buffer_[current_tail] = item.
spsc_push_store ==
  /\ producer.pc = "store"
  /\ buffer_' = [buffer_ EXCEPT ![producer.index] = producer.item]
  /\ producer' = [producer EXCEPT !.pc = "publish"]
  /\ lastOp' = Op("spsc_push", "", "", 0, producer.item, 2, FALSE)
  /\ UNCHANGED <<capacity_, head_, tail_, consumer, spscPushed, spscPopped,
                 spscCalls, notSpsc>>

\* push: tail_.store(next_tail, release) and return true.
spsc_push_publish ==
  /\ producer.pc = "publish"
  /\ tail_' = NextIndex(producer.index)
  /\ producer' = [producer EXCEPT !.pc = "idle"]
  /\ spscPushed' = Append(spscPushed, producer.item)
  /\ lastOp' = Op("spsc_push", "", "", 0, producer.item, 3, TRUE)
  /\ UNCHANGED <<capacity_, buffer_, head_, consumer, spscPopped, spscCalls,
                 notSpsc>>

\* pop, up to its test: the consumer loads head_ and tail_ and returns
\* nullopt when the queue is empty.
spsc_pop ==
  /\ consumer.pc = "idle"
  /\ Len(spscPopped) < spscCalls
  /\ IF SpscEmpty(head_, tail_)
       THEN /\ consumer' = SpscThread("idle", 0, head_)
            /\ lastOp' = Op("spsc_pop", "", "", 0, 0, 0, FALSE)
       ELSE /\ consumer' = SpscThread("load", 0, head_)
            /\ lastOp' = Op("spsc_pop", "", "", 0, 0, 1, FALSE)
  /\ UNCHANGED <<capacity_, buffer_, head_, tail_, producer, spscPushed,
                 spscPopped, spscCalls, notSpsc>>

\* The values a read of a slot can yield: the slot's value, and, when the
\* producer is writing that slot with no release in between (a data race),
\* also the value being written.
SlotValues(index) ==
  {buffer_[index]} \cup
    (IF producer.pc \in {"store", "publish"} /\ producer.index = index
       THEN {producer.item} ELSE {})

\* pop: T item = std::move(buffer_[current_head]).
spsc_pop_load ==
  /\ consumer.pc = "load"
  /\ \E item \in SlotValues(consumer.index) :
       consumer' = [consumer EXCEPT !.pc = "advance", !.item = item]
  /\ lastOp' = Op("spsc_pop", "", "", 0, 0, 2, FALSE)
  /\ UNCHANGED <<capacity_, buffer_, head_, tail_, producer, spscPushed,
                 spscPopped, spscCalls, notSpsc>>

\* pop: head_.store((current_head + 1) % capacity_, release) and return the
\* item.
spsc_pop_advance ==
  /\ consumer.pc = "advance"
  /\ head_' = NextIndex(consumer.index)
  /\ consumer' = [consumer EXCEPT !.pc = "idle"]
  /\ spscPopped' = Append(spscPopped, consumer.item)
  /\ lastOp' = Op("spsc_pop", "", "", 0, consumer.item, 3, TRUE)
  /\ UNCHANGED <<capacity_, buffer_, tail_, producer, spscPushed, spscCalls,
                 notSpsc>>

\* capacity()
capacity == capacity_ - 1

(* Inputs of the SPSC queue specification *)

MaxSpscPushes == 4
SpscCapacities == {1, 2}

\* The producer pushes 1, 2, 3, ... : the number of the call.
NextSpsc ==
  \/ spscCalls < MaxSpscPushes /\ spsc_push(spscCalls + 1)
  \/ spsc_push_store
  \/ spsc_push_publish
  \/ spsc_pop
  \/ spsc_pop_load
  \/ spsc_pop_advance

-----------------------------------------------------------------------------
(* MpscQueue   src/core/include/rtc/metrics_exporter.h (lock_free_queue.h) *)

\* A Node, named by its number in allocation order; next is 0 for nullptr
\* and deletes counts the delete expressions applied to it.
Node(data, next) == [data |-> data, next |-> next, deletes |-> 0]

\* new Node(): the heap after the allocation; the new node is the last.
Allocated(heap, data) == Append(heap, Node(data, 0))

\* delete node.
Deleted(heap, node) == [heap EXCEPT ![node].deletes = @ + 1]

\* A producer thread: where it is inside push, with its locals node and prev.
Pusher(pc, node, prev) == [pc |-> pc, node |-> node, prev |-> prev]

MpscProducers == {"t1", "t2"}

\* MpscQueue(capacity): the stub node is allocated, head_ and tail_ name it.
InitMpsc ==
  /\ mpsc_nodes = Allocated(<<>>, 0)
  /\ stub_ = 1
  /\ mpsc_head = 1
  /\ mpsc_tail = 1
  /\ pushers = [t \in MpscProducers |-> Pusher("idle", 0, 0)]
  /\ mpsc_destroyed = FALSE
  /\ mpscOut = <<>>

MaxMpscPushes == 4

\* push, up to head_.exchange(node): the node is allocated and filled and
\* becomes the head. At most MaxMpscPushes pushes are made.
mpsc_push(t, item) ==
  /\ Len(mpsc_nodes) <= MaxMpscPushes
  /\ ~mpsc_destroyed
  /\ pushers[t].pc = "idle"
  /\ mpsc_nodes' = Allocated(mpsc_nodes, item)
  /\ mpsc_head' = Len(mpsc_nodes')
  /\ pushers' = [pushers EXCEPT ![t] = Pusher("link", mpsc_head', mpsc_head)]
  /\ lastOp' = Op("mpsc_push", t, "", 0, item, 1, FALSE)
  /\ UNCHANGED <<mpsc_tail, stub_, mpsc_destroyed, mpscOut, notMpsc>>

\* push: prev->next.store(node, release).
mpsc_push_link(t) ==
  /\ pushers[t].pc = "link"
  /\ mpsc_nodes' = [mpsc_nodes EXCEPT ![pushers[t].prev].next = pushers[t].node]
  /\ pushers' = [pushers EXCEPT ![t] = Pusher("idle", 0, 0)]
  /\ lastOp' = Op("mpsc_push", t, "", 0, 0, 2, TRUE)
  /\ UNCHANGED <<mpsc_head, mpsc_tail, stub_, mpsc_destroyed, mpscOut,
                 notMpsc>>

\* pop on a given heap and tail_: nullopt when tail->next is nullptr;
\* otherwise tail_ moves to the next node, whose data is returned, and the
\* old tail node is deleted.
Pop(heap, tail) ==
  LET next == heap[tail].next
  IN  IF next = 0
        THEN [heap |-> heap, tail |-> tail, value |-> <<>>]
        ELSE [heap |-> Deleted(heap, tail), tail |-> next,
              value |-> <<heap[next].data>>]

mpsc_pop ==
  /\ ~mpsc_destroyed
  /\ LET r == Pop(mpsc_nodes, mpsc_tail)
     IN  /\ mpsc_nodes' = r.heap
         /\ mpsc_tail' = r.tail
         /\ mpscOut' = r.value
         /\ lastOp' = Op("mpsc_pop", "", "", 0, 0, 0, r.value # <<>>)
  /\ UNCHANGED <<mpsc_head, stub_, pushers, mpsc_destroyed, notMpsc>>

\* ~MpscQueue: while (pop().has_value()) {}
RECURSIVE Drained(_, _)
Drained(heap, tail) ==
  LET r == Pop(heap, tail)
  IN  IF r.value = <<>> THEN r ELSE Drained(r.heap, r.tail)

\* ~MpscQueue, run when no thread is inside push: the queue is drained and
\* stub_ is deleted.
mpsc_destroy ==
  /\ ~mpsc_destroyed
  /\ \A t \in MpscProducers : pushers[t].pc = "idle"
  /\ LET r == Drained(mpsc_nodes, mpsc_tail)
     IN  /\ mpsc_nodes' = Deleted(r.heap, stub_)
         /\ mpsc_tail' = r.tail
  /\ mpsc_destroyed' = TRUE
  /\ mpscOut' = <<>>
  /\ lastOp' = Op("mpsc_destroy", "", "", 0, 0, 0, TRUE)
  /\ UNCHANGED <<mpsc_head, stub_, pushers, notMpsc>>

(* Inputs of the MPSC queue specification *)

\* The producers push 1, 2, 3, ... in the order of their exchanges on head_.
NextMpsc ==
  \/ \E t \in MpscProducers : mpsc_push(t, Len(mpsc_nodes))
  \/ \E t \in MpscProducers : mpsc_push_link(t)
  \/ mpsc_pop
  \/ mpsc_destroy

(* ConnectionRecovery   src/core/src/connection_recovery.cpp *)

\* The fields of RecoveryConfig the code reads; delays are in ms.
RecoveryConfig(strategy, max_attempts, enable_ice_restart) ==
  [strategy |-> strategy, initial_delay |-> 100, max_delay |-> 30000,
   backoff_multiplier |-> 2, max_attempts |-> max_attempts,
   enable_ice_restart |-> enable_ice_restart]

RecoveryStats(disconnect_count, reconnect_success, reconnect_failed,
              ice_restarts) ==
  [disconnect_count |-> disconnect_count,
   reconnect_success |-> reconnect_success,
   reconnect_failed |-> reconnect_failed, ice_restarts |-> ice_restarts]

\* The std::thread handle with the place its thread has reached in
\* recovery_loop: "none" before any thread was started, "done" once the
\* thread function has returned. The handle stays joinable until join().
RecoveryThread(joinable, pc) == [joinable |-> joinable, pc |-> pc]

\* What is remembered of the run that start_recovery last began: the
\* number of events emitted before it, the value of reconnect_failed then,
\* whether on_reconnected was called while the thread was in its while
\* loop, whether cancel_recovery was called while it was there with
\* attempts left, and whether on_state_change was called since.
RecoveryRun(events, failed, reconnected, cancelled, changed) ==
  [events |-> events, failed |-> failed, reconnected |-> reconnected,
   cancelled |-> cancelled, changed |-> changed]

\* ConnectionRecovery(config).
InitRecovery(config) ==
  /\ recovery_config = config
  /\ recovery_callback = FALSE
  /\ recovery_state = "NEW"
  /\ recovery_stats = RecoveryStats(0, 0, 0, 0)
  /\ recovering = FALSE
  /\ recovery_thread = RecoveryThread(FALSE, "none")
  /\ current_attempt = 0
  /\ current_delay = config.initial_delay
  /\ recovery_caller = "idle"
  /\ recoveryOut = <<>>
  /\ recovery_run = RecoveryRun(0, 0, FALSE, FALSE, FALSE)
  /\ recovery_terminated = FALSE
  /\ recoveryCalls = 0

RECURSIVE Pow(_, _)
Pow(base, exp) == IF exp = 0 THEN 1 ELSE base * Pow(base, exp - 1)

Impl_calculate_delay(config, attempt) ==
  CASE config.strategy = "IMMEDIATE" -> config.initial_delay
    [] config.strategy = "LINEAR_BACKOFF" ->
         config.initial_delay * (attempt + 1)
    [] config.strategy = "EXPONENTIAL_BACKOFF" ->
         LET delay_ms ==
               config.initial_delay * Pow(config.backoff_multiplier, attempt)
         IN  IF delay_ms < config.max_delay THEN delay_ms
                                            ELSE config.max_delay
    [] OTHER -> 0

\* emit_event: the events delivered so far, after one more is emitted.
Impl_emit_event(out, event) ==
  IF recovery_callback THEN Append(out, event) ELSE out

\* The places of recovery_loop that lie inside its while loop.
InLoop == {"while", "reconnecting", "emit", "sleep", "check"}

\* The thread started by start_recovery is running.
RunInProgress == recovery_thread.pc \notin {"none", "done"}

MaxRecoveryCalls == 4

\* The calling thread can make a call: the process runs, and the thread is
\* not blocked in join(). At most MaxRecoveryCalls calls are made.
RecoveryCallable ==
  /\ recoveryCalls < MaxRecoveryCalls
  /\ ~recovery_terminated
  /\ recovery_caller = "idle"
  /\ recoveryCalls' = recoveryCalls + 1

\* set_callback, called while no recovery thread reads the callback.
recovery_set_callback(cb) ==
  /\ RecoveryCallable
  /\ ~RunInProgress
  /\ recovery_callback' = cb
  /\ lastOp' = Op("recovery_set_callback", "caller", "", 0, 0, 0, cb)
  /\ UNCHANGED <<recovery_config, recovery_state, recovery_stats,
                 recovering, recovery_thread, current_attempt,
                 current_delay, recovery_caller, recoveryOut, recovery_run,
                 recovery_terminated, notRecovery>>

on_state_change(new_state) ==
  /\ RecoveryCallable
  /\ LET lost == recovery_state = "CONNECTED" /\ new_state = "DISCONNECTED"
     IN  /\ recovery_stats' =
              IF lost
                THEN [recovery_stats EXCEPT !.disconnect_count = @ + 1]
                ELSE recovery_stats
         /\ recoveryOut' =
              IF lost THEN Impl_emit_event(recoveryOut, "DISCONNECTED")
                      ELSE recoveryOut
         /\ lastOp' = Op("on_state_change", "caller", new_state, 0, 0, 0,
                         lost)
  /\ recovery_state' = new_state
  /\ recovery_run' = [recovery_run EXCEPT !.changed = TRUE]
  /\ UNCHANGED <<recovery_config, recovery_callback, recovering,
                 recovery_thread, current_attempt, current_delay,
                 recovery_caller, recovery_terminated, notRecovery>>

on_network_change(has_connectivity) ==
  /\ RecoveryCallable
  /\ LET restart == has_connectivity /\ recovery_config.enable_ice_restart
     IN  /\ recovery_stats' =
              IF restart THEN [recovery_stats EXCEPT !.ice_restarts = @ + 1]
                         ELSE recovery_stats
         /\ recoveryOut' =
              IF restart THEN Impl_emit_event(recoveryOut, "ICE_RESTART")
                         ELSE recoveryOut
         /\ lastOp' = Op("on_network_change", "caller", "", 0, 0, 0, restart)
  /\ UNCHANGED <<recovery_config, recovery_callback, recovery_state,
                 recovering, recovery_thread, current_attempt,
                 current_delay, recovery_caller, recovery_run,
                 recovery_terminated, notRecovery>>

\* The move assignment of a std::thread to recovery_thread: it calls
\* std::terminate when recovery_thread is still joinable.
ThreadAssignable(thread) == ~thread.joinable

\* start_recovery. It returns false when the strategy is NONE or a run is
\* in progress; otherwise it resets current_attempt, sets recovering and
\* assigns the new thread to recovery_thread.
start_recovery ==
  /\ RecoveryCallable
  /\ IF recovery_config.strategy = "NONE" \/ recovering
       THEN /\ lastOp' = Op("start_recovery", "caller", "", 0, 0, 0, FALSE)
            /\ UNCHANGED <<recovering, recovery_thread, current_attempt,
                           recovery_run, recovery_terminated>>
       ELSE /\ current_attempt' = 0
            /\ recovering' = TRUE
            /\ IF ThreadAssignable(recovery_thread)
                 THEN /\ recovery_thread' = RecoveryThread(TRUE, "while")
                      /\ recovery_run' =
                           RecoveryRun(Len(recoveryOut),
                                       recovery_stats.reconnect_failed,
                                       FALSE, FALSE, FALSE)
                      /\ recovery_terminated' = FALSE
                      /\ lastOp' = Op("start_recovery", "caller", "", 0, 0,
                                      0, TRUE)
                 ELSE /\ recovery_terminated' = TRUE
                      /\ lastOp' = Op("start_recovery", "caller",
                                      "terminate", 0, 0, 0, FALSE)
                      /\ UNCHANGED <<recovery_thread, recovery_run>>
  /\ UNCHANGED <<recovery_config, recovery_callback, recovery_state,
                 recovery_stats, current_delay, recovery_caller,
                 recoveryOut, notRecovery>>

\* cancel_recovery, up to join(): recovering is cleared; with a joinable
\* thread the caller goes on to join it, otherwise the call returns.
cancel_recovery ==
  /\ RecoveryCallable
  /\ recovering' = FALSE
  /\ recovery_caller' = IF recovery_thread.joinable THEN "join" ELSE "idle"
  /\ recovery_run' =
       [recovery_run EXCEPT
          !.cancelled = \/ @
                        \/ /\ recovery_thread.pc \in InLoop
                           /\ current_attempt < recovery_config.max_attempts]
  /\ lastOp' = Op("cancel_recovery", "caller", "", 0, 0, 1,
                  ~recovery_thread.joinable)
  /\ UNCHANGED <<recovery_config, recovery_callback, recovery_state,
                 recovery_stats, recovery_thread, current_attempt,
                 current_delay, recoveryOut, recovery_terminated,
                 notRecovery>>

\* cancel_recovery: recovery_thread.join() returns once the thread function
\* has returned, and so does cancel_recovery.
cancel_recovery_join ==
  /\ recovery_caller = "join"
  /\ recovery_thread.pc = "done"
  /\ recovery_thread' = RecoveryThread(FALSE, "done")
  /\ recovery_caller' = "idle"
  /\ lastOp' = Op("cancel_recovery", "caller", "", 0, 0, 2, TRUE)
  /\ UNCHANGED <<recovery_config, recovery_callback, recovery_state,
                 recovery_stats, recovering, current_attempt, current_delay,
                 recoveryOut, recovery_run, recovery_terminated,
                 recoveryCalls, notRecovery>>

on_reconnected ==
  /\ RecoveryCallable
  /\ recovery_state' = "CONNECTED"
  /\ recovery_run' =
       [recovery_run EXCEPT !.reconnected = @ \/ recovery_thread.pc \in InLoop]
  /\ lastOp' = Op("on_reconnected", "caller", "", 0, 0, 0, TRUE)
  /\ UNCHANGED <<recovery_config, recovery_callback, recovery_stats,
                 recovering, recovery_thread, current_attempt,
                 current_delay, recovery_caller, recoveryOut,
                 recovery_terminated, notRecovery>>

\* A step of the recovery thread moves it to the place `pc`.
LoopStep(pc) ==
  /\ recovery_thread' = [recovery_thread EXCEPT !.pc = pc]
  /\ lastOp' = Op("recovery_loop", "thread", recovery_thread.pc, 0,
                  current_attempt, 0, pc = "done")
  /\ UNCHANGED <<recovery_config, recovery_callback, recovery_caller,
                 recovery_run, recovery_terminated, recoveryCalls,
                 notRecovery>>

\* recovery_loop: the while condition and, inside the loop,
\* current_delay = calculate_delay().
recovery_loop_while ==
  /\ ~recovery_terminated
  /\ recovery_thread.pc = "while"
  /\ IF recovering /\ current_attempt < recovery_config.max_attempts
       THEN /\ current_delay' =
                 Impl_calculate_delay(recovery_config, current_attempt)
            /\ LoopStep("reconnecting")
       ELSE /\ LoopStep("failed")
            /\ UNCHANGED current_delay
  /\ UNCHANGED <<recovery_state, recovery_stats, recovering,
                 current_attempt, recoveryOut>>

\* recovery_loop: under the mutex, state = RECONNECTING.
recovery_loop_reconnecting ==
  /\ ~recovery_terminated
  /\ recovery_thread.pc = "reconnecting"
  /\ recovery_state' = "RECONNECTING"
  /\ LoopStep("emit")
  /\ UNCHANGED <<recovery_stats, recovering, current_attempt, current_delay,
                 recoveryOut>>

\* recovery_loop: emit_event(RECONNECTING).
recovery_loop_emit ==
  /\ ~recovery_terminated
  /\ recovery_thread.pc = "emit"
  /\ recoveryOut' = Impl_emit_event(recoveryOut, "RECONNECTING")
  /\ LoopStep("sleep")
  /\ UNCHANGED <<recovery_state, recovery_stats, recovering,
                 current_attempt, current_delay>>

\* recovery_loop: sleep_for(current_delay), then
\* if (!recovering.load()) break.
recovery_loop_sleep ==
  /\ ~recovery_terminated
  /\ recovery_thread.pc = "sleep"
  /\ LoopStep(IF recovering THEN "check" ELSE "failed")
  /\ UNCHANGED <<recovery_state, recovery_stats, recovering,
                 current_attempt, current_delay, recoveryOut>>

\* recovery_loop: under the mutex, the check of state. CONNECTED counts a
\* success and emits RECONNECTED; anything else counts the attempt.
recovery_loop_check ==
  /\ ~recovery_terminated
  /\ recovery_thread.pc = "check"
  /\ IF recovery_state = "CONNECTED"
       THEN /\ recovery_stats' =
                 [recovery_stats EXCEPT !.reconnect_success = @ + 1]
            /\ recoveryOut' = Impl_emit_event(recoveryOut, "RECONNECTED")
            /\ LoopStep("reconnected")
            /\ UNCHANGED current_attempt
       ELSE /\ current_attempt' = current_attempt + 1
            /\ LoopStep("while")
            /\ UNCHANGED <<recovery_stats, recoveryOut>>
  /\ UNCHANGED <<recovery_state, recovering, current_delay>>

\* recovery_loop: after a success, recovering.store(false); return.
recovery_loop_reconnected ==
  /\ ~recovery_terminated
  /\ recovery_thread.pc = "reconnected"
  /\ recovering' = FALSE
  /\ LoopStep("done")
  /\ UNCHANGED <<recovery_state, recovery_stats, current_attempt,
                 current_delay, recoveryOut>>

\* recovery_loop, after the while loop: under the mutex, state = FAILED and
\* reconnect_failed++.
recovery_loop_failed ==
  /\ ~recovery_terminated
  /\ recovery_thread.pc = "failed"
  /\ recovery_state' = "FAILED"
  /\ recovery_stats' = [recovery_stats EXCEPT !.reconnect_failed = @ + 1]
  /\ LoopStep("emit_failed")
  /\ UNCHANGED <<recovering, current_attempt, current_delay, recoveryOut>>

\* recovery_loop: emit_event(FAILED).
recovery_loop_emit_failed ==
  /\ ~recovery_terminated
  /\ recovery_thread.pc = "emit_failed"
  /\ recoveryOut' = Impl_emit_event(recoveryOut, "FAILED")
  /\ LoopStep("store")
  /\ UNCHANGED <<recovery_state, recovery_stats, recovering,
                 current_attempt, current_delay>>

\* recovery_loop: recovering.store(false), and the thread function returns.
recovery_loop_store ==
  /\ ~recovery_terminated
  /\ recovery_thread.pc = "store"
  /\ recovering' = FALSE
  /\ LoopStep("done")
  /\ UNCHANGED <<recovery_state, recovery_stats, current_attempt,
                 current_delay, recoveryOut>>

(* Inputs of the connection recovery specification *)

RecoveryConfigs ==
  { RecoveryConfig(strategy, max_attempts, ice) :
      strategy \in {"NONE", "IMMEDIATE", "EXPONENTIAL_BACKOFF",
                    "LINEAR_BACKOFF"},
      max_attempts \in {1, 2}, ice \in BOOLEAN }

RecoveryStates == {"CONNECTED", "DISCONNECTED"}

NextRecovery ==
  \/ \E cb \in BOOLEAN : recovery_set_callback(cb)
  \/ \E new_state \in RecoveryStates : on_state_change(new_state)
  \/ \E has_connectivity \in BOOLEAN : on_network_change(has_connectivity)
  \/ start_recovery
  \/ cancel_recovery
  \/ on_reconnected
  \/ cancel_recovery_join
  \/ recovery_loop_while
  \/ recovery_loop_reconnecting
  \/ recovery_loop_emit
  \/ recovery_loop_sleep
  \/ recovery_loop_check
  \/ recovery_loop_reconnected
  \/ recovery_loop_failed
  \/ recovery_loop_emit_failed
  \/ recovery_loop_store

(* JitterBuffer   src/unnamed/part_014 (jitter_buffer.cpp) *)

\* The fields of JitterBufferConfig the code reads; delays are in ms.
JitterBufferConfig(max_packets, enable_adaptive) ==
  [min_delay |-> 10, max_delay |-> 200, target_delay |-> 50,
   max_packets |-> max_packets, enable_adaptive |-> enable_adaptive]

\* A JitterFrame; the RTP timestamp, which the code never reads, is left
\* out.
JitterFrame(data, sequence_number, arrival_time) ==
  [data |-> data, sequence_number |-> sequence_number,
   arrival_time |-> arrival_time]

\* A float whose value is num / 16^exp, in lowest terms of that form. All
\* the values jitter_estimate takes within the bounds below are of this
\* form and are represented exactly by a float.
RECURSIVE Float16(_, _)
Float16(num, exp) ==
  IF exp > 0 /\ num % 16 = 0 THEN Float16(num \div 16, exp - 1)
                             ELSE [num |-> num, exp |-> exp]

\* JitterBufferStats; packet_loss_rate is kept as the pair it is the
\* quotient of, lost / total, with total = 0 for the initial 0.0f.
JitterBufferStats(target_delay) ==
  [current_size |-> 0, target_delay |-> target_delay,
   packet_loss_rate |-> [lost |-> 0, total |-> 0],
   jitter_ms |-> Float16(0, 0), packets_received |-> 0, packets_lost |-> 0,
   packets_late |-> 0, packets_duplicated |-> 0]

\* JitterBuffer(config).
InitJb(config) ==
  /\ jb_config = config
  /\ jb_buffer = <<>>
  /\ expected_sequence = 0
  /\ sequence_initialized = FALSE
  /\ playout_start = 0
  /\ playout_started = FALSE
  /\ jb_stats = JitterBufferStats(config.target_delay)
  /\ jitter_estimate = Float16(0, 0)
  /\ last_arrival_delta = 0
  /\ jb_now = 0
  /\ jbOut = <<>>
  /\ jbCalls = 0

Abs(x) == IF x < 0 THEN -x ELSE x

\* jitter_estimate += (diff - jitter_estimate) / 16.0f
Smoothed(jitter, diff) ==
  Float16(15 * jitter.num + diff * Pow(16, jitter.exp), jitter.exp + 1)

\* update_jitter: the new playout_start, playout_started, jitter_estimate
\* and last_arrival_delta.
Impl_update_jitter(arrival_time) ==
  IF playout_started
    THEN LET delta == arrival_time - playout_start
             diff == Abs(delta - last_arrival_delta)
         IN  [playout_start |-> playout_start, playout_started |-> TRUE,
              jitter_estimate |-> Smoothed(jitter_estimate, diff),
              last_arrival_delta |-> delta]
    ELSE [playout_start |-> arrival_time, playout_started |-> TRUE,
          jitter_estimate |-> jitter_estimate,
          last_arrival_delta |-> last_arrival_delta]

\* adapt_delay: the new stats.target_delay,
\* clamp(static_cast<int>(jitter_estimate * 2 + 10), min_delay, max_delay).
Impl_adapt_delay(jitter, target_delay) ==
  IF ~jb_config.enable_adaptive
    THEN target_delay
    ELSE Clamp(Trunc(2 * jitter.num, Pow(16, jitter.exp)) + 10,
               jb_config.min_delay, jb_config.max_delay)

\* The buffer without its first n frames.
DropFront(buffer, n) == SubSeq(buffer, n + 1, Len(buffer))

\* The first position whose frame has a sequence number after `sequence`
\* (the int16_t difference is negative), or one past the end.
InsertPosition(buffer, sequence) ==
  LET later == { i \in DOMAIN buffer :
                   Int16(sequence - buffer[i].sequence_number) < 0 }
  IN  IF later = {} THEN Len(buffer) + 1
                    ELSE CHOOSE i \in later : \A j \in later : i <= j

InsertedAt(buffer, pos, frame) ==
  SubSeq(buffer, 1, pos - 1) \o <<frame>> \o SubSeq(buffer, pos, Len(buffer))

\* The size check of push: the buffer holds max_packets frames or more.
AtMaxSize(buffer) == Len(buffer) >= jb_config.max_packets

MaxJbCalls == 4

\* A call on the buffer, made `dt` ms after the one before.
JbCallable(dt) ==
  /\ jbCalls < MaxJbCalls
  /\ jbCalls' = jbCalls + 1
  /\ jb_now' = jb_now + dt

\* push(frame), the frame arriving now.
jb_push(dt, data, sequence_number) ==
  /\ JbCallable(dt)
  /\ LET frame == JitterFrame(data, sequence_number, jb_now')
         full == AtMaxSize(jb_buffer)
         buffer == IF full THEN DropFront(jb_buffer, 1) ELSE jb_buffer
         late == IF full THEN jb_stats.packets_late + 1
                         ELSE jb_stats.packets_late
         duplicate == \E i \in DOMAIN buffer :
                        buffer[i].sequence_number = frame.sequence_number
         u == Impl_update_jitter(frame.arrival_time)
     IN  /\ expected_sequence' = IF sequence_initialized
                                   THEN expected_sequence
                                   ELSE frame.sequence_number
         /\ sequence_initialized' = TRUE
         /\ IF duplicate
              THEN /\ jb_buffer' = buffer
                   /\ jb_stats' =
                        [jb_stats EXCEPT
                           !.packets_late = late,
                           !.packets_duplicated = @ + 1]
                   /\ UNCHANGED <<playout_start, playout_started,
                                  jitter_estimate, last_arrival_delta>>
              ELSE /\ jb_buffer' =
                        InsertedAt(buffer,
                                   InsertPosition(buffer, frame.sequence_number),
                                   frame)
                   /\ playout_start' = u.playout_start
                   /\ playout_started' = u.playout_started
                   /\ jitter_estimate' = u.jitter_estimate
                   /\ last_arrival_delta' = u.last_arrival_delta
                   /\ jb_stats' =
                        [jb_stats EXCEPT
                           !.packets_late = late,
                           !.jitter_ms = u.jitter_estimate,
                           !.target_delay =
                              Impl_adapt_delay(u.jitter_estimate, @),
                           !.packets_received = @ + 1,
                           !.current_size = Len(jb_buffer')]
         /\ lastOp' = Op("jb_push", "", IF full THEN "full" ELSE "", 0, data,
                         sequence_number, ~duplicate)
  /\ UNCHANGED <<jb_config, jbOut, notJb>>

\* pop(): nullopt while the buffer is empty, playout has not started or the
\* front frame is younger than the target delay; otherwise the front frame.
jb_pop(dt) ==
  /\ JbCallable(dt)
  /\ IF \/ jb_buffer = <<>>
        \/ ~playout_started
        \/ jb_now' - jb_buffer[1].arrival_time < jb_stats.target_delay
       THEN /\ jbOut' = <<>>
            /\ lastOp' = Op("jb_pop", "", "", 0, 0, 0, FALSE)
            /\ UNCHANGED <<jb_buffer, expected_sequence, jb_stats>>
       ELSE LET frame == jb_buffer[1]
                diff == Int16(frame.sequence_number - expected_sequence)
                lost == IF frame.sequence_number # expected_sequence
                           /\ diff > 0
                          THEN jb_stats.packets_lost + diff
                          ELSE jb_stats.packets_lost
            IN  /\ jb_buffer' = DropFront(jb_buffer, 1)
                /\ expected_sequence' = U16(frame.sequence_number + 1)
                /\ jb_stats' =
                     [jb_stats EXCEPT
                        !.packets_lost = lost,
                        !.current_size = Len(jb_buffer'),
                        !.packet_loss_rate =
                           IF jb_stats.packets_received > 0
                             THEN [lost |-> lost,
                                   total |-> jb_stats.packets_received + lost]
                             ELSE @]
                /\ jbOut' = <<frame>>
                /\ lastOp' = Op("jb_pop", "", "", 0, frame.data,
                                frame.sequence_number, TRUE)
  /\ UNCHANGED <<jb_config, sequence_initialized, playout_start,
                 playout_started, jitter_estimate, last_arrival_delta, notJb>>

\* reset(): stats = {} and then stats.target_delay = config.target_delay.
jb_reset ==
  /\ JbCallable(0)
  /\ jb_buffer' = <<>>
  /\ sequence_initialized' = FALSE
  /\ playout_started' = FALSE
  /\ jb_stats' = JitterBufferStats(jb_config.target_delay)
  /\ lastOp' = Op("jb_reset", "", "", 0, 0, 0, TRUE)
  /\ UNCHANGED <<jb_config, expected_sequence, playout_start,
                 jitter_estimate, last_arrival_delta, jbOut, notJb>>

set_target_delay(delay) ==
  /\ JbCallable(0)
  /\ jb_stats' =
       [jb_stats EXCEPT
          !.target_delay =
             Clamp(delay, jb_config.min_delay, jb_config.max_delay)]
  /\ lastOp' = Op("set_target_delay", "", "", 0, delay, 0, TRUE)
  /\ UNCHANGED <<jb_config, jb_buffer, expected_sequence,
                 sequence_initialized, playout_start, playout_started,
                 jitter_estimate, last_arrival_delta, jbOut, notJb>>

(* Inputs of the jitter buffer specification *)

JbConfigs ==
  { JitterBufferConfig(max_packets, adaptive) :
      max_packets \in {2, 3}, adaptive \in BOOLEAN }

\* Sequence numbers on both sides of the uint16_t wrap.
JbSequences == {65535, 0, 1}

JbSteps == {0, 20}

JbDelays == {5, 20}

NextJb ==
  \/ \E dt \in JbSteps, data \in {1, 2}, sequence_number \in JbSequences :
       jb_push(dt, data, sequence_number)
  \/ \E dt \in JbSteps : jb_pop(dt)
  \/ jb_reset
  \/ \E delay \in JbDelays : set_target_delay(delay)

-----------------------------------------------------------------------------
(* Specifications *)

InitOp == Op("init", "", "", 0, 0, 0, FALSE)

\* The components a specification leaves idle, as default-constructed.
IdleFb == fb_config = FrameBufferConfig(TRUE) /\ InitFb
IdleMix == mix_config = AudioSourceConfig(48000, 1, 20) /\ InitMix
IdlePacer == pacer_config = PacerConfig(1000000, 10000, 1000) /\ InitPacer
IdleBc == bc_config = BitrateControllerConfig(1000, 100, 5000) /\ InitBc
IdleIce ==
  /\ ice_config = IceAgentConfig("CONTROLLING", TRUE) /\ InitIce
  /\ socket = "open"
IdleCluster == cluster_config = ClusterConfig("") /\ InitCluster
IdleSpsc == capacity_ = 1 /\ InitSpsc
IdleMpsc == InitMpsc
IdleRecovery == InitRecovery(RecoveryConfig("NONE", 1, FALSE))
IdleJb == InitJb(JitterBufferConfig(2, FALSE))

\* The forwarder and the subscription manager as constructed, and every
\* other component idle but those named.
IdleExcept(named) ==
  /\ InitFwd /\ InitSub /\ lastOp = InitOp
  /\ IF "FrameBuffer" \in named THEN TRUE ELSE IdleFb
  /\ IF "AudioMixer" \in named THEN TRUE ELSE IdleMix
  /\ IF "RtpPacer" \in named THEN TRUE ELSE IdlePacer
  /\ IF "BitrateController" \in named THEN TRUE ELSE IdleBc
  /\ IF "IceAgent" \in named THEN TRUE ELSE IdleIce
  /\ IF "RtpPacket" \in named THEN TRUE ELSE InitRtp
  /\ IF "ClusterCoordinator" \in named THEN TRUE ELSE IdleCluster
  /\ IF "SpscQueue" \in named THEN TRUE ELSE IdleSpsc
  /\ IF "MpscQueue" \in named THEN TRUE ELSE IdleMpsc
  /\ IF "ConnectionRecovery" \in named THEN TRUE ELSE IdleRecovery
  /\ IF "JitterBuffer" \in named THEN TRUE ELSE IdleJb

\* The forwarder alone, with its I/O threads.
InitMedia ==
  /\ IdleFb /\ IdleMix /\ IdlePacer /\ IdleBc /\ IdleIce /\ InitRtp
  /\ IdleCluster
  /\ IdleSpsc
  /\ IdleMpsc
  /\ IdleRecovery
  /\ IdleJb
InitF == InitFwd /\ InitSub /\ InitMedia /\ lastOp = InitOp
NextFwd ==
  \/ FwdControl(MaxCalls, Registrations, Publishers, Subscribers, Rules, Layers)
  \/ FwdPackets(MaxPackets, Arrivals)
SpecFwd == InitF /\ [][NextFwd]_vars

\* The subscription manager alone.
NextSub ==
  SubControl(SmSubscribers, SmPublishers, StreamIds, LayerTables, Estimates)
SpecSub == InitF /\ [][NextSub]_vars


\* Both components side by side, as SfuServer::Impl owns them: their callers
\* use the two objects independently, each behind its own mutex.
SfuRegistrations == { <<"p1", "a", RtpStreamInfo(SsrcA, 1)>> }
SfuRules == { ForwardingRule(0, -1, TRUE) }
SfuArrivals == { <<SsrcA, RtpBytes(SsrcA, 13)>> }
SfuTables == { <<SimulcastLayerInfo(0, 150, TRUE),
                 SimulcastLayerInfo(1, 500, TRUE)>> }

NextSfu ==
  \/ FwdControl(MaxSfuCalls, SfuRegistrations, {"p1"}, {"u1"}, SfuRules, {1})
  \/ FwdPackets(MaxSfuPackets, SfuArrivals)
  \/ SubControl({"u1"}, {"p1"}, {"a"}, SfuTables, {800000})
SpecSfu == InitF /\ [][NextSfu]_vars


\* The frame buffer alone, constructed with either setting of
\* wait_for_keyframe, fed with packets in any order.
InitFbAny ==
  /\ IdleExcept({"FrameBuffer"})
  /\ \E wait \in BOOLEAN : fb_config = FrameBufferConfig(wait)
  /\ InitFb
SpecFb == InitFbAny /\ [][NextFb]_vars

\* The frame buffer fed with a stream of one-packet frames.
SpecFbStream == InitFbAny /\ [][NextFbStream]_vars

\* The audio mixer alone, constructed for mono or for stereo.
InitMixAny ==
  IdleExcept({"AudioMixer"}) /\ mix_config \in MixConfigs /\ InitMix
SpecMix == InitMixAny /\ [][NextMix]_vars

\* The pacer alone, constructed with a small bucket and queue.
InitPacerAny ==
  IdleExcept({"RtpPacer"}) /\ pacer_config \in PacerConfigs /\ InitPacer
SpecPacer == InitPacerAny /\ [][NextPacer]_vars

\* The bitrate controller alone.
InitBcAny ==
  IdleExcept({"BitrateController"}) /\ bc_config \in BcConfigs /\ InitBc
SpecBc == InitBcAny /\ [][NextBc]_vars

\* The ICE agent alone, in either role.
InitIceAny ==
  IdleExcept({"IceAgent"}) /\ ice_config \in IceConfigs /\ InitIce
SpecIce == InitIceAny /\ [][NextIce]_vars

\* Callers of the static IceCandidate::calculate_priority.
SpecIcePriority == InitF /\ [][NextIcePriority]_vars

\* Callers of RtpPacket::serialize and RtpPacket::parse.
SpecRtp == InitF /\ [][NextRtp]_vars

\* The cluster coordinator alone, called by one thread, which keeps running
\* inside a method it has entered.
InitClusterAny ==
  /\ IdleExcept({"ClusterCoordinator"})
  /\ cluster_config \in ClusterConfigs
  /\ InitCluster
SpecCluster ==
  InitClusterAny /\ [][NextCluster]_vars /\ WF_vars(ClusterRuns)

\* One SPSC queue with its producer thread and its consumer thread.
InitSpscAny ==
  /\ IdleExcept({"SpscQueue"})
  /\ \E n \in SpscCapacities : capacity_ = n + 1
  /\ InitSpsc
SpecSpsc == InitSpscAny /\ [][NextSpsc]_vars

\* One MPSC queue with its producer threads and its consumer, from
\* construction to destruction.
InitMpscAny ==
  /\ IdleExcept({"MpscQueue"})
  /\ InitMpsc

SpecMpsc == InitMpscAny /\ [][NextMpsc]_vars

\* One ConnectionRecovery with its calling thread and its recovery thread.
InitRecoveryAny ==
  /\ IdleExcept({"ConnectionRecovery"})
  /\ \E config \in RecoveryConfigs : InitRecovery(config)

SpecRecovery == InitRecoveryAny /\ [][NextRecovery]_vars

\* One JitterBuffer and the calls made on it.
InitJbAny ==
  /\ IdleExcept({"JitterBuffer"})
  /\ \E config \in JbConfigs : InitJb(config)

SpecJb == InitJbAny /\ [][NextJb]_vars

-----------------------------------------------------------------------------
(* Properties of the RTP forwarder (SpecFwd) *)

Last(s) == s[Len(s)]

\* The step that produced the current state was one iteration of the
\* forwarding loop, and it called the sink for that rule.
EmittedNow ==
  /\ lastOp.op = "forward_packet"
  /\ sinkLog # <<>>
  /\ Last(sinkLog).seq = lastOp.seq
  /\ Last(sinkLog).rule = lastOp.i

\* The stream and the rule the last forwarding step looked at (the step
\* leaves the tables unchanged).
StepStream == ssrc_to_stream[lastOp.ssrc]
StepRule == StepStream.subscribers[lastOp.i]

\* C1: for every subscriber and every SSRC, the packets handed to the sink
\* appear in the order in which on_rtp_packet received them (seq is the value
\* of packets_received when the packet was counted): no two emissions of one
\* SSRC to one subscriber are swapped.
C1_ReceiveOrderPreserved ==
  \A i, j \in DOMAIN sinkLog :
    (/\ i < j
     /\ sinkLog[i].subscriber = sinkLog[j].subscriber
     /\ sinkLog[i].ssrc = sinkLog[j].ssrc)
    => sinkLog[i].seq <= sinkLog[j].seq

\* C1 witness: two different packets of one SSRC reached the same subscriber.
C1_Witness ==
  \E i, j \in DOMAIN sinkLog :
    /\ i < j
    /\ sinkLog[i].subscriber = sinkLog[j].subscriber
    /\ sinkLog[i].ssrc = sinkLog[j].ssrc
    /\ sinkLog[i].seq < sinkLog[j].seq

\* bytes 8..11 of out exist and carry ssrc in network order
CarriesSsrc(out, ssrc) ==
  \A k \in 8..11 : k < Len(out) /\ out[k + 1] = Byte(ssrc, k - 8)

\* out equals in outside byte offsets 8..11
SameOutsideSsrc(out, in) ==
  /\ Len(out) = Len(in)
  /\ \A k \in 0..(Len(in) - 1) : k \notin 8..11 => out[k + 1] = in[k + 1]

\* C2 (as claimed): every emission equals the received packet byte for byte,
\* except that under a rewriting rule bytes 8..11 carry rewritten_ssrc in
\* network order and all other bytes are those of the input.
C2_EmittedBytesAsClaimed ==
  EmittedNow =>
    LET e == Last(sinkLog)
    IN IF StepRule.rewritten_ssrc # 0
          /\ StepRule.rewritten_ssrc # StepStream.info.ssrc
       THEN /\ CarriesSsrc(e.packet, StepRule.rewritten_ssrc)
            /\ SameOutsideSsrc(e.packet, e.input)
       ELSE e.packet = e.input

\* C2 (amended): as claimed for packets of at least 12 bytes; a packet
\* shorter than 12 bytes is emitted unchanged whatever the rule says.
C2_EmittedBytes ==
  EmittedNow =>
    LET e == Last(sinkLog)
    IN IF /\ StepRule.rewritten_ssrc # 0
          /\ StepRule.rewritten_ssrc # StepStream.info.ssrc
          /\ Len(e.input) >= 12
       THEN /\ CarriesSsrc(e.packet, StepRule.rewritten_ssrc)
            /\ SameOutsideSsrc(e.packet, e.input)
       ELSE e.packet = e.input

\* C2 witness: a packet of 12 bytes or more was emitted under a rewriting
\* rule, and its SSRC bytes differ from the input's.
C2_Witness ==
  /\ EmittedNow
  /\ StepRule.rewritten_ssrc # 0
  /\ StepRule.rewritten_ssrc # StepStream.info.ssrc
  /\ Len(Last(sinkLog).input) >= 12
  /\ Last(sinkLog).packet # Last(sinkLog).input

\* C3: with a sink installed, a forwarding step emits the packet to the
\* rule's subscriber exactly when the rule is active and it is not the case
\* that stream and rule both name a layer (>= 0) and the two differ.
C3_EmitIffActiveAndLayerMatches ==
  (lastOp.op = "forward_packet" /\ forward_callback) =>
    (EmittedNow <=>
       /\ StepRule.is_active
       /\ ~(/\ StepStream.info.simulcast_layer >= 0
            /\ StepRule.preferred_simulcast_layer >= 0
            /\ StepStream.info.simulcast_layer
                 # StepRule.preferred_simulcast_layer))

\* C3 witness: an active rule preferring layer L was skipped on a stream that
\* advertises another layer, with the sink installed.
C3_Witness ==
  /\ lastOp.op = "forward_packet"
  /\ forward_callback
  /\ ~EmittedNow
  /\ StepRule.is_active
  /\ StepRule.preferred_simulcast_layer >= 0
  /\ StepStream.info.simulcast_layer >= 0
  /\ StepStream.info.simulcast_layer # StepRule.preferred_simulcast_layer

\* The forwarder holds a subscription of sub to pid: some stream of pid
\* carries an active rule of sub without a layer preference.
Subscribed(pid, sub) ==
  \E s \in DOMAIN ssrc_to_stream :
    /\ ssrc_to_stream[s].publisher_id = pid
    /\ \E i \in DOMAIN ssrc_to_stream[s].subscribers :
         LET r == ssrc_to_stream[s].subscribers[i]
         IN r.subscriber_id = sub /\ r.is_active
            /\ r.preferred_simulcast_layer = -1

\* on_rtp_packet has just returned for a packet of a registered stream.
PacketDone ==
  /\ \A t \in Threads : thr[t].pc = "idle"
  /\ \/ lastOp.op = "on_rtp_packet" /\ lastOp.hit
     \/ lastOp.op = "forward_packet"

\* C5 (as claimed): once on_rtp_packet has returned for a packet of a stream
\* of publisher P, with the sink installed, every subscriber the forwarder
\* holds a subscription to P for has been handed that packet, whenever the
\* stream was registered.
C5_EveryStreamForwarded ==
  (PacketDone /\ forward_callback) =>
    \A u \in Subscribers :
      Subscribed(ssrc_to_stream[lastOp.ssrc].publisher_id, u) =>
        \E i \in DOMAIN sinkLog :
          sinkLog[i].seq = lastOp.seq /\ sinkLog[i].subscriber = u

\* C6 (as claimed): add_publisher with an SSRC that is already registered
\* leaves the stream table (entry, owner, rules) as it was.
C6_DuplicateSsrcRejected ==
  [][(lastOp'.op = "add_publisher"
      /\ lastOp'.ssrc \in DOMAIN ssrc_to_stream)
     => ssrc_to_stream' = ssrc_to_stream]_vars

\* One on_rtp_packet call for an SSRC that has no stream.
DropStep == lastOp'.op = "on_rtp_packet" /\ ~lastOp'.hit

\* C7 (as claimed): a packet of an unknown SSRC adds one to packets_dropped,
\* calls no sink and leaves packets_received and bytes_received untouched.
C7_DropBeforeReceiveCounters ==
  [][DropStep =>
       /\ stats'.packets_dropped = stats.packets_dropped + 1
       /\ sinkLog' = sinkLog
       /\ stats'.packets_received = stats.packets_received
       /\ stats'.bytes_received = stats.bytes_received]_vars

\* C7 (amended): a packet of an unknown SSRC adds one to packets_dropped and
\* calls no sink; it is counted in packets_received and bytes_received like
\* every other packet, and nothing is counted as forwarded.
C7_DropCounted ==
  [][DropStep =>
       /\ stats'.packets_dropped = stats.packets_dropped + 1
       /\ sinkLog' = sinkLog
       /\ stats'.packets_received = stats.packets_received + 1
       /\ stats'.bytes_received = stats.bytes_received + lastOp'.i
       /\ stats'.packets_forwarded = stats.packets_forwarded
       /\ stats'.bytes_forwarded = stats.bytes_forwarded]_vars

\* C7 witness: a packet of an unknown SSRC has just been dropped while
\* another SSRC is registered.
C7_Witness ==
  /\ lastOp.op = "on_rtp_packet"
  /\ ~lastOp.hit
  /\ stats.packets_dropped >= 1
  /\ ssrc_to_stream # EmptyMap

-----------------------------------------------------------------------------
(* Pause across the two components (SpecSfu) *)

\* The manager holds subscriptions of sub to pid and all of them are paused.
Paused(sub, pid) ==
  /\ \E k \in DOMAIN subscriptions : Matches(k, sub, pid)
  /\ \A k \in DOMAIN subscriptions :
       Matches(k, sub, pid) => subscriptions[k].is_paused

\* C4 (as claimed): while the subscription of S to P is paused, no packet of
\* a stream of P is handed to the sink for S.
C4_PausedNotForwarded ==
  EmittedNow =>
    ~Paused(Last(sinkLog).subscriber, StepStream.publisher_id)

-----------------------------------------------------------------------------
(* Properties of the subscription manager (SpecSub) *)

\* A subscription process() adjusts and whose subscriber has an estimate.
AutoWithEstimate(k) ==
  /\ ~subscriptions[k].is_paused
  /\ subscriptions[k].target_layer = -1
  /\ k[1] \in DOMAIN bandwidth_info

LayersOf(k) ==
  IF StreamKey(k[2], k[3]) \in DOMAIN stream_layers
  THEN stream_layers[StreamKey(k[2], k[3])] ELSE <<>>

\* the active layers of k's stream whose bitrate is within the estimate
Fitting(k) ==
  {l \in Range(LayersOf(k)) :
     l.is_active /\ l.bitrate_kbps * 1000 <= bandwidth_info[k[1]].estimated_bps}

\* the layer the specification asks for: the highest-bitrate fitting layer,
\* layer 0 when none fits
HighestFitting(k) ==
  IF Fitting(k) = {} THEN 0
  ELSE (CHOOSE l \in Fitting(k) :
          \A m \in Fitting(k) : m.bitrate_kbps <= l.bitrate_kbps).layer_index

\* C8 (as claimed): after process(), every non-paused automatic subscription
\* whose subscriber has an estimate is on the highest-bitrate active layer
\* that fits the estimate, or on layer 0 if none fits, whatever the order of
\* the layer table.
C8_HighestFittingLayer ==
  lastOp.op = "process" =>
    \A k \in DOMAIN subscriptions :
      AutoWithEstimate(k) =>
        subscriptions[k].current_layer = HighestFitting(k)

\* C9 (as claimed): after process(), no automatic subscription is on a layer
\* whose bitrate exceeds the subscriber's estimate.
C9_NeverAboveEstimate ==
  lastOp.op = "process" =>
    \A k \in DOMAIN subscriptions :
      AutoWithEstimate(k) =>
        \A l \in Range(LayersOf(k)) :
          l.layer_index = subscriptions[k].current_layer =>
            l.bitrate_kbps * 1000 <= bandwidth_info[k[1]].estimated_bps

\* C9 (amended): after process(), an automatic subscription is on an active
\* layer whose bitrate is within the estimate, unless no active layer fits,
\* in which case it is on layer 0 whatever layer 0 costs.
C9_FitsOrFallback ==
  lastOp.op = "process" =>
    \A k \in DOMAIN subscriptions :
      AutoWithEstimate(k) =>
        \/ \E l \in Fitting(k) :
             l.layer_index = subscriptions[k].current_layer
        \/ Fitting(k) = {} /\ subscriptions[k].current_layer = 0

\* C9 witness: process() has put an automatic subscription on a layer above
\* layer 0 that fits, while a dearer layer of the table does not fit.
C9_Witness ==
  /\ lastOp.op = "process"
  /\ \E k \in DOMAIN subscriptions :
       /\ AutoWithEstimate(k)
       /\ subscriptions[k].current_layer > 0
       /\ \E l \in Fitting(k) : l.layer_index = subscriptions[k].current_layer
       /\ \E l \in Range(LayersOf(k)) : l.is_active /\ l \notin Fitting(k)

\* C10 (as claimed): one process() cycle alone never upgrades: the first
\* process() ever run raises no subscription's current_layer, however much
\* bandwidth the subscriber has.
C10_NoUpgradeInOneCycle ==
  [][(lastOp'.op = "process" /\ cycles = 0) =>
       \A k \in DOMAIN subscriptions :
         (AutoWithEstimate(k) /\ LayersOf(k) # <<>>) =>
           subscriptions'[k].current_layer <= subscriptions[k].current_layer]_vars


-----------------------------------------------------------------------------
(* Layer switches across the two components (SpecSfu) *)

HighestPresent(k) ==
  CHOOSE i \in {l.layer_index : l \in Range(LayersOf(k))} :
    \A l \in Range(LayersOf(k)) : l.layer_index <= i

\* C12 (as claimed): after process(), a non-paused automatic subscription
\* whose subscriber has no bandwidth estimate is on the highest layer present
\* in its stream's layer table.
C12_HighestPresentWithoutEstimate ==
  lastOp.op = "process" =>
    \A k \in DOMAIN subscriptions :
      (/\ AutoAdjusted(subscriptions[k])
       /\ k[1] \notin DOMAIN bandwidth_info
       /\ LayersOf(k) # <<>>)
      => subscriptions[k].current_layer = HighestPresent(k)


-----------------------------------------------------------------------------
(* Properties of the frame buffer (SpecFb, SpecFbStream) *)

\* the packets inserted for a timestamp since construction or reset()
InsertedFor(ts) == {p \in fbHist.inserted : p[1] = ts}

\* their payloads concatenated in sequence-number order, starting from the
\* lowest sequence number in wrap-aware order
RECURSIVE InSeqOrder(_, _, _)
InSeqOrder(todo, lowest, data) ==
  IF todo = {} THEN data
  ELSE LET p == CHOOSE x \in todo :
                  \A y \in todo : U16(x[2] - lowest) <= U16(y[2] - lowest)
       IN InSeqOrder(todo \ {p}, lowest, data \o p[3])

PayloadsInOrder(ts) ==
  LET lowest == CHOOSE p \in InsertedFor(ts) :
                  \A q \in InsertedFor(ts) : Int16(q[2] - p[2]) >= 0
  IN InSeqOrder(InsertedFor(ts), lowest[2], <<>>)

\* C13 (as claimed): every frame returned by pop_frame() has data equal to
\* the concatenation, in sequence-number order, of all payloads inserted for
\* its rtp_timestamp, whatever the order in which the packets arrived.
C13_FrameIsAllPayloads ==
  (lastOp.op = "pop_frame" /\ fbRet.kind = "frame") =>
    fbRet.frame.data = PayloadsInOrder(fbRet.frame.rtp_timestamp)

\* every sequence number from first_sequence to last_sequence is stored
Contiguous(a) ==
  \A i \in 0..U16(a.last_sequence - a.first_sequence) :
    U16(a.first_sequence + i) \in DOMAIN a.packets

\* C14 (as claimed): an assembler is judged complete exactly when its first
\* and last sequence numbers are known and every sequence number from the
\* first to the last is present, also when the range ends at 65535 or wraps
\* past it.
C14_CompleteIffContiguous ==
  \A ts \in DOMAIN assemblers :
    is_complete(assemblers[ts]) <=>
      (/\ assemblers[ts].has_first
       /\ assemblers[ts].has_last
       /\ Contiguous(assemblers[ts]))

\* C15: with wait_for_keyframe enabled, the first frame queued since
\* construction or the last reset() is a keyframe, every frame waiting in
\* the queue was queued after a keyframe, and a frame returned by
\* pop_frame() is a keyframe or follows a queued keyframe.
C15_NoFrameBeforeKeyframe ==
  fb_config.wait_for_keyframe =>
    /\ fbHist.first # "delta"
    /\ complete_frames # <<>> => fbHist.first = "key"
    /\ (lastOp.op = "pop_frame" /\ fbRet.kind = "frame") => fbHist.first = "key"

\* C15 witness: with wait_for_keyframe enabled and no keyframe accepted, an
\* insert has completed a non-keyframe frame, which was not queued.
C15_Witness ==
  /\ fb_config.wait_for_keyframe
  /\ lastOp.op = "insert_packet"
  /\ fbHist.first = "none"
  /\ complete_frames = <<>>
  /\ \E ts \in DOMAIN assemblers :
       is_complete(assemblers[ts]) /\ ~assemblers[ts].is_keyframe

\* C16 (as claimed): should_request_keyframe() returns true exactly when no
\* keyframe has been accepted yet or more than 10 frames were dropped since
\* the most recent keyframe was accepted.
C16_RequestSinceLastKeyframe ==
  lastOp.op = "should_request_keyframe" =>
    (fbRet.flag <=> (~fbHist.key \/ fbHist.droppedSinceKey > DropThreshold))

\* C17 (as claimed): get_nack_list(max) returns at most max sequence
\* numbers, each inside [highest_seq - 100, highest_seq) and not received,
\* where highest_seq is the newest sequence number received so far.
C17_NacksBelowNewest ==
  (lastOp.op = "get_nack_list" /\ fbHist.newest # -1) =>
    /\ Len(fbRet.nacks) <= fbRet.arg
    /\ \A i \in DOMAIN fbRet.nacks :
         /\ U16(fbHist.newest - fbRet.nacks[i]) \in 1..NackWindow
         /\ fbRet.nacks[i] \notin received_sequences


-----------------------------------------------------------------------------
(* Properties of the audio mixer (SpecMix) *)

\* the sum of the volume-scaled samples at position i of a set of sources
RECURSIVE ScaledSum(_, _)
ScaledSum(ids, i) ==
  IF ids = {} THEN 0
  ELSE LET id == CHOOSE x \in ids : TRUE
       IN Scaled(sources[id].buffer[i], sources[id].params.volume)
            + ScaledSum(ids \ {id}, i)

\* the other sources that are not muted and pushed data since the last tick
OthersHeard(r) ==
  {id \in DOMAIN sources \ {r} :
     sources[id].has_data /\ ~sources[id].params.muted}

\* C18 (as claimed): at every mixer tick the samples delivered to a
\* recipient are the int16-saturated sum of the volume-scaled samples of all
\* other unmuted sources that pushed data since the previous tick.
C18_MixMinusSelf ==
  [][lastOp'.op = "AudioMixer_process" =>
       \A r \in DOMAIN mixOut' :
         mixOut'[r].samples =
           [i \in 1..frame_size |-> Saturate(ScaledSum(OthersHeard(r), i))]]_vars

\* C19 (as claimed): after every process() the active speaker is either
\* empty or a registered, non-muted source whose level exceeds -40 dBFS and
\* is the loudest such source.
C19_ActiveSpeakerIsLoudest ==
  lastOp.op = "AudioMixer_process" =>
    \/ active_speaker = ""
    \/ /\ active_speaker \in DOMAIN sources
       /\ ~sources[active_speaker].params.muted
       /\ AboveMinimum(sources[active_speaker].audio_level_db)
       /\ \A id \in DOMAIN sources :
            ~sources[id].params.muted =>
              sources[id].audio_level_db
                <= sources[active_speaker].audio_level_db

-----------------------------------------------------------------------------
(* Properties of the pacer (SpecPacer) *)

\* Bytes handed to the send callback by the calls i..j of the log.
RECURSIVE BytesEmitted(_, _)
BytesEmitted(i, j) ==
  IF i > j THEN 0 ELSE Len(pacedLog[i].data) + BytesEmitted(i + 1, j)

\* The windows of the log: from one send to a later one, the target bitrate
\* not having been set since before the window began.
PacedWindows ==
  { w \in (DOMAIN pacedLog) \X (DOMAIN pacedLog) :
      w[1] <= w[2] /\ pacedLog[w[1]].at > rate_set_at }

\* Length of a window in clock units.
WindowLength(w) == pacedLog[w[2]].at - pacedLog[w[1]].at

\* bucket_size + (target_bitrate / 8) x window length in seconds, and the
\* bytes of the window, both multiplied by 8000 x UnitsPerMs.
WindowAllowance(w) ==
  pacer_config.bucket_size_bytes * 8000 * UnitsPerMs
    + pacer_config.target_bitrate_bps * WindowLength(w)
WindowBytes(w) == BytesEmitted(w[1], w[2]) * 8000 * UnitsPerMs

\* C20: over any window of time in which the target bitrate is constant, the
\* bytes the pacer hands to the send callback are at most
\* bucket_size + (target_bitrate / 8) x window length in seconds.
C20_BytesWithinBucketPlusRate ==
  \A w \in PacedWindows : WindowBytes(w) <= WindowAllowance(w)

\* C20 witness: a window longer than zero, refilled by process() in between,
\* in which the pacer sent exactly the allowance.
C20_Witness ==
  /\ lastOp.op = "RtpPacer_process"
  /\ \E w \in PacedWindows :
       /\ WindowLength(w) > 0
       /\ w[1] < w[2]
       /\ WindowBytes(w) = WindowAllowance(w)

\* The number of the enqueue call that queued a packet (its payload bytes).
EnqueueNo(p) == p.data[1]

\* a leaves the pacer no later than b: higher priority first, and among
\* equal priorities the one enqueued first.
LeavesFirst(a, b) ==
  \/ a.priority > b.priority
  \/ a.priority = b.priority /\ EnqueueNo(a) <= EnqueueNo(b)

\* The send_callback calls k..n of a log, as a set of payloads.
PayloadsFrom(log, k) == { log[i].data : i \in k..Len(log) }

\* C21 (as claimed): every packet process() hands to the send callback is,
\* among the packets queued at that moment, one of highest priority and of
\* those the one enqueued first.
C21_PriorityThenFifo ==
  [][lastOp'.op = "RtpPacer_process" =>
       \A k \in (Len(pacedLog) + 1)..Len(pacedLog') :
         \A j \in DOMAIN queue :
           queue[j].data \in PayloadsFrom(pacedLog', k) \/
           queue[j].data \in { queue'[i].data : i \in DOMAIN queue' }
             => LeavesFirst(pacedLog'[k], queue[j])]_vars

\* C22: enqueue on a full queue returns false, adds one to packets_dropped
\* and leaves the queue as it was.
C22_FullQueueDropsNew ==
  [][lastOp'.op = "enqueue" /\ Len(queue) >= pacer_config.max_queue_size =>
       /\ lastOp'.hit = FALSE
       /\ pacer_stats'.packets_dropped = pacer_stats.packets_dropped + 1
       /\ queue' = queue]_vars

\* C22 witness: enqueue has just returned false on a full queue.
C22_Witness ==
  /\ lastOp.op = "enqueue"
  /\ lastOp.hit = FALSE
  /\ pacer_stats.packets_dropped > 0
  /\ Len(queue) = pacer_config.max_queue_size

-----------------------------------------------------------------------------
(* Properties of the bitrate controller (SpecBc) *)

\* C23 (as claimed): after any sequence of on_remb, on_packet_loss, process
\* and set_bitrate calls the chosen bitrate lies within
\* [min_bitrate_bps, max_bitrate_bps].
C23_BitrateWithinMinMax ==
  /\ bc_config.min_bitrate_bps <= current_bitrate
  /\ current_bitrate <= bc_config.max_bitrate_bps

-----------------------------------------------------------------------------
(* Properties of the ICE agent (SpecIce, SpecIcePriority) *)

\* length >= 20, leading two bits 00, bytes 4..7 the magic cookie
IsStun(data) ==
  /\ Len(data) >= 20
  /\ data[1] \div 64 = 0
  /\ SubSeq(data, 5, 8) = MagicCookie

\* C24 (as claimed): process_packet hands a packet to on_data exactly when
\* the packet is not STUN, STUN meaning length >= 20, leading bits 00 and
\* the magic cookie in bytes 4..7.
C24_StunIffMagicCookie ==
  [][\A data \in IcePackets :
       callbacks.on_data /\ process_packet(data, "peer") =>
         (IsStun(data) <=> iceOut' = <<>>)]_vars

\* new -> checking -> connected -> completed, or into failed, disconnected
\* or closed; nothing leaves closed.
IceTransitions ==
  { <<"NEW", "CHECKING">>, <<"CHECKING", "CONNECTED">>,
    <<"CONNECTED", "COMPLETED">> }
  \cup { <<from, to>> \in
           {"NEW", "CHECKING", "CONNECTED", "COMPLETED", "FAILED",
            "DISCONNECTED"} \X {"FAILED", "DISCONNECTED", "CLOSED"} :
           from # to }

\* C25 (as claimed): the connection state only moves along the transitions
\* above, and never changes once it is closed.
C25_StateMachineAndClosedFinal ==
  [][connection_state' # connection_state =>
       <<connection_state, connection_state'>> \in IceTransitions]_vars

\* 2 x a + bit for a uint32_t a, as three 16-bit digits
Doubled(a, bit) ==
  LET low == 2 * a[2] + bit
      high == 2 * a[1] + (low \div Half)
  IN <<high \div Half, high % Half, low % Half>>

\* min(G,D) x 2^32 + 2 x max(G,D) + (1 if G > D else 0), as a uint64_t
StandardPairPriority(G, D) ==
  LET lesser == IF Less(D, G) THEN D ELSE G
      greater == IF Less(D, G) THEN G ELSE D
      low == Doubled(greater, IF Less(D, G) THEN 1 ELSE 0)
      mid == lesser[2] + low[1]
  IN <<(lesser[1] + (mid \div Half)) % Half, mid % Half, low[2], low[3]>>

\* the priority of the controlling agent's candidate of a pair, and of the
\* controlled agent's
ControllingPriority(pair) ==
  IF ice_config.role = "CONTROLLING" THEN pair.local.priority
  ELSE pair.remote.priority
ControlledPriority(pair) ==
  IF ice_config.role = "CONTROLLING" THEN pair.remote.priority
  ELSE pair.local.priority

\* C26 (as claimed): every candidate pair's priority is
\* min(G,D) x 2^32 + 2 x max(G,D) + (1 if G > D else 0).
C26_PairPriorityStandard ==
  \A i \in DOMAIN candidate_pairs :
    candidate_pairs[i].priority =
      StandardPairPriority(ControllingPriority(candidate_pairs[i]),
                           ControlledPriority(candidate_pairs[i]))

\* C27 (as claimed): the check list holds exactly the (local, remote) pairs
\* of equal component, in descending order of pair priority.
C27_CheckListSameComponentSorted ==
  /\ { <<candidate_pairs[i].local, candidate_pairs[i].remote>> :
         i \in DOMAIN candidate_pairs }
       = { <<local_candidates[i], remote_candidates[j]>> :
             <<i, j>> \in { p \in (DOMAIN local_candidates)
                                    \X (DOMAIN remote_candidates) :
                              local_candidates[p[1]].component
                                = remote_candidates[p[2]].component } }
  /\ \A i \in DOMAIN candidate_pairs : \A j \in DOMAIN candidate_pairs :
       i < j => ~Less(candidate_pairs[i].priority, candidate_pairs[j].priority)

\* C28 (as claimed): of two calculate_priority results the one of higher
\* type preference is the higher priority, whatever the local preferences
\* and components.
C28_TypePreferenceDominates ==
  \A a \in priorityLog : \A b \in priorityLog :
    TypePreference(a.type) > TypePreference(b.type)
      => Less(b.priority, a.priority)

-----------------------------------------------------------------------------
(* Properties of the RTP packet (SpecRtp) *)

\* Version 2, a CSRC list of csrc_count <= 15 entries, the extension flag
\* set exactly when there is an extension, whose data is a whole number of
\* 32-bit words.
WellFormed(packet) ==
  /\ packet.header.version = 2
  /\ packet.header.csrc_count = Len(packet.header.csrc)
  /\ packet.header.csrc_count <= 15
  /\ packet.header.payload_type < 128
  /\ packet.header.extension = (packet.extension # <<>>)
  /\ packet.extension # <<>> => (Len(packet.extension[1].data) % 4) = 0

\* C29 (as claimed): parsing the serialisation of a well-formed packet
\* yields a packet equal to it.
C29_ParseSerializeRoundTrip ==
  rtp_packet # <<>> /\ rtp_parsed.called /\ WellFormed(rtp_packet[1])
    => rtp_parsed.value = rtp_packet

-----------------------------------------------------------------------------
(* Properties of the cluster coordinator (SpecCluster) *)

NestedCalls == {"join", "create_room", "trigger_election"}

\* C30: no public operation blocks forever: join(), create_room() and
\* trigger_election(), called on an otherwise idle coordinator, each return,
\* without waiting on a lock the calling thread already holds.  Whenever the
\* calling thread is inside one of them it eventually returns from it, and
\* it never waits in mutex::lock for the mutex it owns.
C30_PublicOperationsReturn ==
  /\ [](~(cluster_call.at = "blocked" /\ cluster_mutex = Caller))
  /\ \A op \in NestedCalls :
       (cluster_call.op = op /\ cluster_call.at = "locked")
         ~> (cluster_call.op = op /\ cluster_call.at = "returned")

-----------------------------------------------------------------------------
(* Properties of the frame buffer's cleanup (SpecFb) *)

\* C32 (as claimed): after every insert_packet call returns, whatever the
\* outcome of that insert, the complete queue contains no frame older than
\* max_delay and no assembler older than 2 x max_delay remains in the buffer.
C32_NothingOldAfterInsert ==
  lastOp.op = "insert_packet" =>
    /\ \A i \in DOMAIN complete_frames :
         ~(complete_frames[i].age > fb_config.max_delay)
    /\ \A ts \in DOMAIN assemblers :
         ~(assemblers[ts].age > fb_config.max_delay * 2)

-----------------------------------------------------------------------------
(* Properties of the manual layer override (SpecSub) *)

\* C33 (as claimed): after set_target_layer(subscriber, publisher, L) with
\* L >= 0 on an existing subscription, the subscription's current_layer
\* becomes L no later than the end of the next process(), regardless of the
\* bandwidth estimate: when process() has just run, every subscription with
\* a manual target is on that layer.
C33_TargetLayerReachedByProcess ==
  lastOp.op = "process" =>
    \A k \in DOMAIN subscriptions :
      subscriptions[k].target_layer >= 0 =>
        subscriptions[k].current_layer = subscriptions[k].target_layer

-----------------------------------------------------------------------------
(* The pacer under a caller that keeps calling process() (SpecPacerLive) *)

\* steady_clock advances by `units` half milliseconds and process() is
\* called.  Only the time since the previous call enters process(), so the
\* clock is read relative to the call: the clock variables are 0 again when
\* it returns.
PacerRound(units) ==
  LET elapsed == ElapsedMs(steady_clock + units, last_process_time)
      filled == Refilled(pacer_config, available_tokens,
                         NewTokens(pacer_config, elapsed))
      r == Drain(queue, filled)
  IN
  /\ available_tokens' = r.tokens
  /\ queue' = r.queue
  /\ pacer_stats' = [pacer_stats EXCEPT
                       !.packets_sent = @ + Len(r.sent),
                       !.bytes_sent = @ + TotalSize(r.sent)]
  /\ pacedLog' = IF send_callback
                 THEN pacedLog \o
                      [k \in 1..Len(r.sent) |->
                         PacedCall(r.sent[k], steady_clock)]
                 ELSE pacedLog
  /\ lastOp' = Op("RtpPacer_process", "", "", 0, Len(r.sent), units,
                  send_callback)
  /\ UNCHANGED <<pacer_config, send_callback, steady_clock, last_process_time,
                 rate_set_at, pacerCalls, notPacer>>

\* Time between two calls of process(): 1 ms, 5 ms (the pacing cadence) and
\* 10 ms.
PacerSteps == { 2, 10, 20 }

PacerRounds == \E units \in PacerSteps : PacerRound(units)

NextPacerLive ==
  \/ \E cb \in BOOLEAN : RtpPacer_set_send_callback(cb)
  \/ \E size \in PacerSizes, priority \in PacerPriorities :
       /\ pacerCalls < MaxPacerCalls
       /\ enqueue(PacerData(size, pacerCalls + 1), "d1", priority)
  \/ PacerRounds

\* The pacer with a positive target bitrate, process() called again and
\* again as time advances.
SpecPacerLive ==
  InitPacerAny /\ [][NextPacerLive]_vars /\ WF_vars(PacerRounds)

\* The packet of the k-th enqueue call is in the queue.
InQueue(k) == \E i \in DOMAIN queue : queue[i].data[1] = k

\* C37 (as claimed): every packet accepted by the pacer's enqueue is
\* eventually emitted, provided process() keeps being called while time
\* advances and the target bitrate is positive, whatever the sizes of the
\* queued packets relative to the bucket size: a packet in the queue
\* eventually leaves it.
C37_AcceptedEventuallyEmitted ==
  \A k \in 1..MaxPacerCalls : InQueue(k) ~> ~InQueue(k)

-----------------------------------------------------------------------------
(* Properties of the forwarder's subscriber count (SpecFwd) *)

\* The (publisher, subscriber) pairs that have at least one forwarding rule.
RulePairs ==
  UNION { { <<ssrc_to_stream[s].publisher_id,
              ssrc_to_stream[s].subscribers[i].subscriber_id>> :
              i \in DOMAIN ssrc_to_stream[s].subscribers } :
          s \in DOMAIN ssrc_to_stream }

\* C38 (as claimed): after any sequence of add_publisher, remove_publisher,
\* add_subscription and remove_subscription calls, stats().active_subscribers
\* equals the number of (publisher, subscriber) pairs that currently have at
\* least one forwarding rule; in particular it never underflows below zero.
C38_ActiveSubscribersCountsPairs ==
  stats.active_subscribers = Cardinality(RulePairs)

-----------------------------------------------------------------------------
(* Properties of the SPSC queue (SpecSpsc) *)

\* The number of elements pushed and not yet popped.
SpscHeld == Len(spscPushed) - Len(spscPopped)

\* C31: with one producer thread and one consumer thread running
\* concurrently, pop returns exactly the elements that were successfully
\* pushed, each once and in push order; push returns false only when the
\* queue holds capacity() unpopped elements and pop returns nullopt only
\* when it holds none.
C31_SpscFifoAndExactBounds ==
  /\ Len(spscPopped) <= Len(spscPushed)
  /\ spscPopped = SubSeq(spscPushed, 1, Len(spscPopped))
  /\ (lastOp.op = "spsc_push" /\ lastOp.seq = 0) => SpscHeld = capacity
  /\ (lastOp.op = "spsc_pop" /\ lastOp.seq = 0) => SpscHeld = 0

\* C31 witness: the producer has just found the queue full, after the index
\* has wrapped, while the consumer is in the middle of a pop.
C31_Witness ==
  /\ lastOp.op = "spsc_push" /\ lastOp.seq = 0
  /\ Len(spscPopped) >= capacity_
  /\ consumer.pc = "advance"

-----------------------------------------------------------------------------
(* Properties of the MPSC queue (SpecMpsc) *)

\* C39 (as claimed): over the whole lifetime of an MpscQueue (construction,
\* any pushes and pops, destruction), every node it allocates, including the
\* initial stub node, is freed exactly once: no node is freed twice and none
\* is left allocated after destruction.
C39_EveryNodeFreedOnce ==
  \A node \in DOMAIN mpsc_nodes :
    /\ mpsc_nodes[node].deletes <= 1
    /\ mpsc_destroyed => mpsc_nodes[node].deletes = 1


-----------------------------------------------------------------------------
(* Properties of the connection recovery (SpecRecovery) *)

\* The events emitted since the current run of recovery_loop was started.
RunEvents == SubSeq(recoveryOut, recovery_run.events + 1, Len(recoveryOut))

RunEmitted(event) == \E i \in DOMAIN RunEvents : RunEvents[i] = event

\* C34: when on_reconnected() was called while the recovery thread was in
\* its loop (and neither cancel_recovery nor on_state_change was called
\* during the run), the thread returns in state CONNECTED, having emitted a
\* RECONNECTED event and no FAILED event.
C34_ReconnectedRunSucceeds ==
  ( /\ lastOp.op = "recovery_loop"
    /\ recovery_thread.pc = "done"
    /\ recovery_run.reconnected
    /\ ~recovery_run.cancelled
    /\ ~recovery_run.changed ) =>
      /\ recovery_state = "CONNECTED"
      /\ ~RunEmitted("FAILED")
      /\ recovery_callback => RunEmitted("RECONNECTED")

\* C35: when cancel_recovery() has returned from cancelling a run that was
\* in its loop with attempts left, the state is not FAILED, reconnect_failed
\* is what it was when the run started, and the run emitted no FAILED event.
C35_CancelReportsNoFailure ==
  ( /\ lastOp.op = "cancel_recovery"
    /\ lastOp.hit
    /\ recovery_run.cancelled
    /\ ~recovery_run.changed ) =>
      /\ recovery_state # "FAILED"
      /\ recovery_stats.reconnect_failed = recovery_run.failed
      /\ ~RunEmitted("FAILED")

\* C36: start_recovery(), called with a strategy other than NONE after the
\* recovery thread has returned on its own and was not joined, starts a new
\* run and returns true, and the process is not terminated.
C36_RestartAfterRunEnded ==
  [][ ( /\ start_recovery
        /\ recovery_config.strategy # "NONE"
        /\ recovery_thread = RecoveryThread(TRUE, "done") ) =>
          /\ lastOp'.hit
          /\ ~recovery_terminated'
          /\ recovery_thread'.pc = "while" ]_vars


-----------------------------------------------------------------------------
(* Properties of the jitter buffer (SpecJb) *)

FramesOf(buffer) == { buffer[i] : i \in DOMAIN buffer }

\* C40: a push that returns false because its sequence number is already
\* buffered leaves the set of buffered frames as it was, whether or not the
\* buffer held max_packets frames.
C40_DuplicatePushKeepsFrames ==
  [][ \A dt \in JbSteps, data \in {1, 2}, sequence_number \in JbSequences :
        (jb_push(dt, data, sequence_number) /\ ~lastOp'.hit) =>
          FramesOf(jb_buffer') = FramesOf(jb_buffer) ]_vars

====
